---- MODULE Spec2Model ----
(***************************************************************************)
(* talon-agent: the spool store (append_to_spool, rotate_spool_file,       *)
(* flush_spool), the advisory lock on .spool.lock, send_batch and the      *)
(* egress loop http_loop, as a state machine of threads and processes      *)
(* that share one spool directory.                                         *)
(*                                                                         *)
(* A file is the sequence of the chunks written to it: the serialized      *)
(* bytes of one record, or one newline.  Lines are what BufRead::lines     *)
(* makes of that sequence.  Every `?` of the source is a step that may     *)
(* fail; a failed step returns the error through the lock guard's drop.    *)
(***************************************************************************)
EXTENDS Integers, Sequences, FiniteSets, TLC

\* ---------------------------------------------------------------- bounds
MaxRecs     == 3   \* lines received / records created in one behaviour
MaxRecBytes == 2   \* serialized length of a record is in 1..MaxRecBytes
MaxSpoolLines == 5 \* lines of the spool that `talon-agent flush` is run on
MaxConnLines == 2  \* lines a producer writes to one connection
chan_capacity == 2 \* --chan-capacity
U64_BITS    == 10  \* width of a u64 (64 in the source)
U32_BITS    == 5   \* width of a u32 (32 in the source)

\* ------------------------------------------------- configuration (Config)
batch_size  == 2   \* --batch-size
batch_bytes == 3   \* --batch-bytes
spool_bytes == 2   \* --spool-bytes (cap_bytes of the egress thread)
large_cap   == 50  \* the tests' cap "large enough to avoid rotation"
FLUSH_CHUNK == 2   \* flush_spool's sub-batch length (500 in the source)
MAX_ATTEMPTS == 4  \* send_batch: for attempt in 0..4
BASE_DELAY_MS == 200
LAST_SLEEP_ATTEMPT == 3   \* send_batch: if attempt < 3 { sleep }

Egress    == "egress"      \* the thread running http_loop
FlushProc == "flushproc"   \* an external `talon-agent flush` process
Threads   == {"tA", "tB"}  \* threads of the test module calling the spool API
Actors    == {Egress, FlushProc} \cup Threads

Conns     == {"c1", "c2"}  \* connections accepted by run_unix

EVENTS == "events.jsonl"
TMP    == "events.tmp"
FileNames == {EVENTS, TMP}

VARIABLES
  files,      \* FileNames -> sequence of chunks: the bytes of each file
  present,    \* the files that exist in the spool directory
  lock,       \* actors whose open file description holds flock(.spool.lock)
  pc,         \* actor -> the step it executes next
  cont,       \* actor -> where its caller continues when the operation returns
  op,         \* actor -> the spool operation it is running
  result,     \* actor -> outcome of its current/last spool operation
  events,     \* actor -> append_to_spool's `events` argument
  cap,        \* actor -> append_to_spool's `cap_bytes` argument
  wi,         \* actor -> index of the event append_to_spool writes next
  lines,      \* actor -> rotate_spool_file's `lines` / flush_spool's unread lines
  batch,      \* actor -> flush_spool's `batch`
  attempt,    \* actor -> send_batch's `attempt`
  delay,      \* actor -> send_batch's `delay` in ms
  sret,       \* actor -> call site of the running send_batch
  buf,        \* http_loop's `buf`
  buf_bytes,  \* http_loop's `buf_bytes`
  quarantine, \* lines of quarantine.jsonl
  qlock,      \* holders of .spool.lock when append_to_quarantine last returned
  nextId,     \* number of lines/records created so far
  feed,       \* the kinds of line the producers write to the socket
  config,     \* http_loop's `config`: batch_size and batch_bytes
  mapper,     \* from_tap_frame: its argument, its locals, its result
  tap,        \* one talon-tap process: its input, its sends and spawns, its exit
  due,        \* http_loop: last.elapsed() >= timeout, as the loop last saw it
  jit,        \* the call of jitter made so far: its argument and what it returned
  collector,  \* the answers the collector gives in this run
  main_tx,    \* run_unix is running and holds the channel's Sender `tx`
  sock,       \* connection -> the lines its producer wrote that are not read yet
  cpc,        \* connection -> what its handle_conn_unix thread does next
  held,       \* connection -> the line its thread is sending
  chan,       \* the lines in the bounded channel
  entered,    \* ids of the lines placed in the channel so far, in that order
  acked,      \* actor -> ids acknowledged within its running flush_spool
  collected,  \* ids of the records in the requests the collector answered with 2xx
  posts,      \* actor -> the send_batch calls of its running flush_spool that returned
              \*          Ok: the ids of the body and the requests the call made
  snap,       \* actor -> bytes of events.jsonl when its operation took the lock
  rot_pre,    \* actor -> lines of events.jsonl when its rotation began
  rotated,    \* actor -> its running append_to_spool called rotate_spool_file
  spooled,    \* some append_to_spool has returned Ok(())
  reqs,       \* actor -> outcome of each request of its send_batch call
  slept,      \* actor -> base delays that send_batch call has slept
  last_post   \* what became of the batch the egress loop sent in this iteration

vars == <<files, present, lock, pc, cont, op, result, events, cap, wi, lines, batch,
          attempt, delay, sret, buf, buf_bytes, quarantine, qlock, nextId, feed, config, mapper, tap, due,
          jit, collector, main_tx, sock, cpc, held, chan, entered,
          acked, posts, collected, snap, rot_pre, rotated, spooled, reqs, slept, last_post>>

\* ------------------------------------------------------------ data model
\* One chunk of file content: the serialized bytes of a record (ok = it is
\* complete JSON), or the newline byte.
NL == [id |-> 0, sz |-> 1, ok |-> TRUE]
Rec(i, s) == [id |-> i, sz |-> s, ok |-> TRUE]
\* What a failed write_all may leave behind: a strict prefix of the record.
Fragment(r) == [id |-> r.id, sz |-> 1, ok |-> FALSE]

RECURSIVE ByteLen(_)
ByteLen(s) == IF s = <<>> THEN 0 ELSE Head(s).sz + ByteLen(Tail(s))

FirstNL(s) == IF \E i \in 1..Len(s) : s[i] = NL
              THEN CHOOSE i \in 1..Len(s) : s[i] = NL /\ \A j \in 1..(i-1) : s[j] # NL
              ELSE 0

\* BufRead::lines(): split at newlines; a last line without newline counts.
RECURSIVE BufLines(_)
BufLines(s) ==
  IF s = <<>> THEN <<>>
  ELSE LET i == FirstNL(s) IN
       IF i = 0 THEN <<s>>
       ELSE <<SubSeq(s, 1, i-1)>> \o BufLines(SubSeq(s, i+1, Len(s)))

\* serde_json::to_string(event): the record's bytes as one chunk.
to_string(r) == <<r>>
\* serde_json::from_str(line) succeeds on exactly one complete JSON value.
from_str_ok_lenient(line) == line # <<>>
from_str_ok(line) == Len(line) = 1 /\ line[1].ok /\ line[1] # NL
from_str(line) == line[1]

IdsOf(s) == [k \in 1..Len(s) |-> s[k].id]

RECURSIVE SeqIds(_)
SeqIds(s) == IF s = <<>> THEN {} ELSE {Head(s).id} \cup SeqIds(Tail(s))

\* The records flush_spool would parse out of some file content.
RECURSIVE ParseableOf(_)
ParseableOf(ls) ==
  IF ls = <<>> THEN <<>>
  ELSE (IF from_str_ok(Head(ls)) THEN <<from_str(Head(ls))>> ELSE <<>>)
       \o ParseableOf(Tail(ls))
Parseable(bytes) == ParseableOf(BufLines(bytes))

\* writeln!(out, "{}", line) for each line
RECURSIVE WriteLines(_)
WriteLines(ls) == IF ls = <<>> THEN <<>> ELSE Head(ls) \o <<NL>> \o WriteLines(Tail(ls))

Content(f) == IF f \in present THEN files[f] ELSE <<>>
\* path.metadata().map(|m| m.len()).unwrap_or(0)
metadata_len(f) == IF f \in present THEN ByteLen(files[f]) ELSE 0


\* --------------------------------------------------------- bookkeeping
fsv    == <<files, present>>
argv   == <<events, cap, wi>>
sendv  == <<attempt, delay, sret>>
connv  == <<main_tx, sock, cpc, held, chan, entered>>
feedv  == <<feed, config, mapper, tap>>
inputv == <<feedv, jit, collector, connv>>
qv     == <<quarantine, qlock>>
loopv  == <<buf, buf_bytes, qv, nextId, due, inputv>>
tracev == <<reqs, slept>>
deliv  == <<acked, posts, collected>>
opv    == <<deliv, snap, rot_pre, rotated, spooled, last_post>>
ghostv == <<opv, tracev>>

Goto(a, p) == pc' = [pc EXCEPT ![a] = p]
\* The operation is over with outcome `res`; its guard is dropped by Return.
Finish(a, res) == /\ pc' = [pc EXCEPT ![a] = "ret"]
                  /\ result' = [result EXCEPT ![a] = res]
\* The call of send_batch that has just returned is forgotten.
ClearTrace(a) == /\ reqs' = [reqs EXCEPT ![a] = <<>>]
                 /\ slept' = [slept EXCEPT ![a] = <<>>]
\* A `?` that propagates an I/O error, leaving everything else as it is.
IoError(a) == /\ Finish(a, "io_err")
              /\ ClearTrace(a)
              /\ UNCHANGED <<fsv, lock, cont, op, argv, lines, batch, sendv, loopv, opv>>

\* A write through a descriptor opened with append(true) lands at the end.
WriteAtStart(f, chunk) == IF f \in present THEN [files EXCEPT ![f] = chunk \o @] ELSE files
AppendBytes(f, chunk) == IF f \in present THEN [files EXCEPT ![f] = @ \o chunk] ELSE files

\* ------------------------------------------------------ SpoolLockGuard
\* file.lock_exclusive(): flock(LOCK_EX) on a freshly opened description of
\* .spool.lock is granted only while no other description holds the lock.
flock_shared(a) == TRUE
flock_available(a) == lock \ {a} = {}

AfterAcquire(p) == CASE p = "a_acquire" -> "a_open"
                     [] p = "f_acquire" -> "f_open"
                     [] p = "t_acquire" -> "r_rename"

AcquirePcs == {"a_acquire", "f_acquire", "t_acquire"}

\* file.lock_exclusive()? returns Ok: the blocked call is granted the lock.
lock_exclusive(a) ==
  /\ pc[a] \in AcquirePcs
  /\ flock_available(a)
  /\ lock' = lock \cup {a}
  /\ Goto(a, AfterAcquire(pc[a]))
  /\ snap' = [snap EXCEPT ![a] = Content(EVENTS)]
  /\ UNCHANGED <<fsv, cont, op, result, argv, lines, batch, sendv, loopv,
                 deliv, rot_pre, rotated, spooled, tracev, last_post>>

SpoolLockGuard_acquire(a) ==
  /\ pc[a] \in AcquirePcs
  /\ \/ IoError(a)      \* open(.spool.lock) or lock_exclusive failed
     \/ lock_exclusive(a)

\* Drop for SpoolLockGuard at the end of the operation's scope, and the
\* return to the caller.
SpoolLockGuard_leak(a) == lock
SpoolLockGuard_drop(a) == lock \ {a}     \* let _ = self._file.unlock(), and the descriptor is closed

\* What the caller does with the Result: http_loop binds it to `let _` and goes
\* on whatever it is; main and the tests end with it.
propagate_error(c, res) == IF res = "ok" THEN c ELSE "done"
let_underscore(c, res) == c

\* What http_loop knows of the triggered batch once append_to_spool has returned.
SpoolOutcome(res) == IF res = "ok" THEN "spooled" ELSE "unspooled"

Return(a) ==
  /\ pc[a] = "ret"
  /\ lock' = SpoolLockGuard_drop(a)
  /\ Goto(a, let_underscore(cont[a], result[a]))
  /\ wi' = [wi EXCEPT ![a] = 0]
  /\ lines' = [lines EXCEPT ![a] = <<>>]
  /\ batch' = [batch EXCEPT ![a] = <<>>]
  /\ acked' = [acked EXCEPT ![a] = {}]
  /\ posts' = [posts EXCEPT ![a] = <<>>]
  /\ UNCHANGED collected
  /\ snap' = [snap EXCEPT ![a] = <<>>]
  /\ rot_pre' = [rot_pre EXCEPT ![a] = <<>>]
  /\ rotated' = [rotated EXCEPT ![a] = FALSE]
  /\ spooled' = (spooled \/ (op[a] = "append" /\ result[a] = "ok"))
  /\ ClearTrace(a)
  /\ last_post' = CASE cont[a] = "e_recv"  -> "none"
                    [] cont[a] = "e_clear" -> SpoolOutcome(result[a])
                    [] OTHER -> last_post
  /\ result' = [result EXCEPT ![a] = IF cont[a] = "done" THEN @ ELSE "none"]
  /\ op' = [op EXCEPT ![a] = IF cont[a] = "done" THEN @ ELSE "none"]
  /\ UNCHANGED <<fsv, cont, events, cap, sendv, loopv>>

\* File::create(path): the file exists afterwards and has length zero.
File_open_existing(f) == files
File_create(f) == [files EXCEPT ![f] = <<>>]

\* ------------------------------------------------------ append_to_spool
append_mkdir(a) ==
  /\ pc[a] = "a_mkdir"
  /\ \/ IoError(a)
     \/ /\ Goto(a, "a_acquire")
        /\ ClearTrace(a)
        /\ UNCHANGED <<fsv, lock, cont, op, result, argv, lines, batch, sendv, loopv, opv>>

\* OpenOptions::new().create(true).append(true).open(&file_path)?
append_open(a) ==
  /\ pc[a] = "a_open"
  /\ \/ IoError(a)
     \/ /\ present' = present \cup {EVENTS}
        /\ UNCHANGED files
        /\ wi' = [wi EXCEPT ![a] = 1]
        /\ Goto(a, IF events[a] = <<>> THEN "a_sync" ELSE "a_line")
        /\ UNCHANGED <<lock, cont, op, result, events, cap, lines, batch, sendv, loopv, ghostv>>

\* f.write_all(line.as_bytes())?  A failed write_all may have written a part.
append_write_line(a) ==
  /\ pc[a] = "a_line"
  /\ LET r == events[a][wi[a]] IN
     \/ IoError(a)
     \/ /\ r.sz > 1
        /\ files' = AppendBytes(EVENTS, <<Fragment(r)>>)
        /\ Finish(a, "io_err")
        /\ UNCHANGED <<present, lock, cont, op, argv, lines, batch, sendv, loopv, ghostv>>
     \/ /\ files' = AppendBytes(EVENTS, to_string(r))
        /\ Goto(a, "a_nl")
        /\ UNCHANGED <<present, lock, cont, op, result, argv, lines, batch, sendv, loopv, ghostv>>

\* f.write_all(b"\n")?
append_write_nl(a) ==
  /\ pc[a] = "a_nl"
  /\ \/ IoError(a)
     \/ /\ files' = AppendBytes(EVENTS, <<NL>>)
        /\ wi' = [wi EXCEPT ![a] = @ + 1]
        /\ Goto(a, IF wi[a] = Len(events[a]) THEN "a_sync" ELSE "a_line")
        /\ UNCHANGED <<present, lock, cont, op, result, events, cap, lines, batch, sendv,
                       loopv, ghostv>>

\* f.sync_all()?; drop(f)
append_sync(a) ==
  /\ pc[a] = "a_sync"
  /\ \/ IoError(a)
     \/ /\ Goto(a, "a_stat")
        /\ UNCHANGED <<fsv, lock, cont, op, result, argv, lines, batch, sendv, loopv, ghostv>>

needs_rotation_never(a) == FALSE
needs_rotation(a) == metadata_len(EVENTS) > cap[a]

append_stat(a) ==
  /\ pc[a] = "a_stat"
  /\ IF needs_rotation(a)
     THEN /\ Goto(a, "r_rename")
          /\ rotated' = [rotated EXCEPT ![a] = TRUE]
          /\ UNCHANGED result
     ELSE /\ Finish(a, "ok")
          /\ UNCHANGED rotated
  /\ UNCHANGED <<fsv, lock, cont, op, argv, lines, batch, sendv, loopv,
                 deliv, snap, rot_pre, spooled, tracev, last_post>>

\* ---------------------------------------------------- rotate_spool_file
\* fs::rename(file_path, &tmp)?
rotate_rename(a) ==
  /\ pc[a] = "r_rename"
  /\ \/ IoError(a)
     \/ /\ EVENTS \in present
        /\ files' = [files EXCEPT ![TMP] = files[EVENTS], ![EVENTS] = <<>>]
        /\ present' = (present \ {EVENTS}) \cup {TMP}
        /\ rot_pre' = [rot_pre EXCEPT ![a] = BufLines(files[EVENTS])]
        /\ Goto(a, "r_read")
        /\ UNCHANGED <<lock, cont, op, result, argv, lines, batch, sendv, loopv,
                       deliv, snap, rotated, spooled, tracev, last_post>>

\* BufReader::new(File::open(&tmp)?).lines().map_while(Result::ok).collect()
rotate_read(a) ==
  /\ pc[a] = "r_read"
  /\ \/ IoError(a)
     \/ /\ TMP \in present
        /\ lines' = [lines EXCEPT ![a] = BufLines(files[TMP])]
        /\ Goto(a, "r_create")
        /\ UNCHANGED <<fsv, lock, cont, op, result, argv, batch, sendv, loopv, ghostv>>

\* File::create(file_path)?
rotate_create(a) ==
  /\ pc[a] = "r_create"
  /\ \/ IoError(a)
     \/ /\ files' = File_create(EVENTS)
        /\ present' = present \cup {EVENTS}
        /\ Goto(a, "r_write")
        /\ UNCHANGED <<lock, cont, op, result, argv, lines, batch, sendv, loopv, ghostv>>

\* keep_from = lines.len().saturating_sub(lines.len() / 2); keep = &lines[keep_from..]
keep_oldest(ls) == SubSeq(ls, 1, Len(ls) \div 2)
keep(ls) == LET n == Len(ls)
                keep_from == IF n >= n \div 2 THEN n - (n \div 2) ELSE 0
            IN  SubSeq(ls, keep_from + 1, n)

\* for line in keep { writeln!(out, "{}", line)?; }
rotate_write(a) ==
  /\ pc[a] = "r_write"
  /\ \E k \in 0..Len(keep(lines[a])) :
       /\ files' = [files EXCEPT ![EVENTS] = WriteLines(SubSeq(keep(lines[a]), 1, k))]
       /\ IF k = Len(keep(lines[a]))
          THEN Goto(a, "r_sync") /\ UNCHANGED result
          ELSE Finish(a, "io_err")
  /\ UNCHANGED <<present, lock, cont, op, argv, lines, batch, sendv, loopv, ghostv>>

\* out.sync_all()?; File::open(dir)?.sync_all()?
rotate_sync(a) ==
  /\ pc[a] = "r_sync"
  /\ \/ IoError(a)
     \/ /\ Goto(a, "r_remove")
        /\ UNCHANGED <<fsv, lock, cont, op, result, argv, lines, batch, sendv, loopv, ghostv>>

\* fs::remove_file(&tmp)?; Ok(())
rotate_remove(a) ==
  /\ pc[a] = "r_remove"
  /\ \/ IoError(a)
     \/ /\ TMP \in present
        /\ present' = present \ {TMP}
        /\ files' = [files EXCEPT ![TMP] = <<>>]
        /\ Finish(a, "ok")
        /\ UNCHANGED <<lock, cont, op, argv, lines, batch, sendv, loopv, ghostv>>


\* ------------------------------------------------------------ send_batch
Responses == {"2xx", "4xx", "5xx", "transport"}

\* The `events` argument of the running send_batch.
SendArg(a) == IF sret[a] = "e_loop" THEN buf ELSE batch[a]

\* What the call site does with send_batch's result.
\*   http_loop: on Err append_to_spool(&config.spool_dir, &buf, config.spool_bytes)
\*   flush_spool: `?` returns the error; Ok continues the loop / the truncate
\* if send_batch(..).is_err() { let _ = append_to_spool(..); }
is_err_always(ok) == TRUE
is_err(ok) == ~ok
\* send_batch(client, endpoint, api_key, &batch)?; in flush_spool
try_ok_always(ok) == TRUE
try_ok(ok) == ok

SendReturns(a, ok) ==
  /\ attempt' = [attempt EXCEPT ![a] = 0]
  /\ delay' = [delay EXCEPT ![a] = BASE_DELAY_MS]
  /\ sret' = [sret EXCEPT ![a] = "none"]
  /\ last_post' = IF sret[a] = "e_loop" THEN (IF ok THEN "ok" ELSE "err") ELSE last_post
  /\ CASE sret[a] = "e_loop" ->
            IF is_err(ok)
            THEN /\ Goto(a, "a_mkdir")
                 /\ events' = [events EXCEPT ![a] = buf]
                 /\ cap' = [cap EXCEPT ![a] = spool_bytes]
                 /\ cont' = [cont EXCEPT ![a] = "e_clear"]
                 /\ op' = [op EXCEPT ![a] = "append"]
                 /\ UNCHANGED <<result, batch>>
            ELSE /\ Goto(a, "e_clear")
                 /\ UNCHANGED <<result, events, cap, cont, op, batch>>
       [] sret[a] = "f_loop" ->
            IF try_ok(ok)
            THEN /\ Goto(a, "f_read")
                 /\ batch' = [batch EXCEPT ![a] = <<>>]
                 /\ UNCHANGED <<result, events, cap, cont, op>>
            ELSE /\ Finish(a, "send_err")
                 /\ UNCHANGED <<events, cap, cont, op, batch>>
       [] sret[a] = "f_tail" ->
            IF try_ok(ok)
            THEN /\ Goto(a, "f_create")
                 /\ UNCHANGED <<result, events, cap, cont, op, batch>>
            ELSE /\ Finish(a, "send_err")
                 /\ UNCHANGED <<events, cap, cont, op, batch>>

\* Ok(resp) if resp.status().is_success()
is_success(resp) == resp = "2xx"
\* Ok(resp) if resp.status().is_client_error()
is_client_error_never(resp) == FALSE
is_client_error(resp) == resp = "4xx"
\* if attempt < 3 { thread::sleep(jitter(delay)); delay = delay.saturating_mul(2); }
sleeps_after_every_failure(n) == TRUE
sleeps(n) == n < LAST_SLEEP_ATTEMPT
\* for attempt in 0..4
loop_continues(n) == n < MAX_ATTEMPTS

\* What is kept of a response: its status class; a transport error and a 5xx
\* are both retryable.
Outcome(resp) == IF resp \in {"2xx", "4xx"} THEN resp ELSE "retryable"

\* if events.is_empty() { return Ok(()); }, then one pass of `for attempt in 0..4`:
\* the request and the match on its outcome.
send_batch(a) ==
  /\ pc[a] = "s_try"
  /\ IF SendArg(a) = <<>>
     THEN SendReturns(a, TRUE) /\ UNCHANGED <<deliv, tracev>>
     ELSE \E resp \in collector :
       /\ reqs' = [reqs EXCEPT ![a] = Append(@, Outcome(resp))]
       /\ IF is_success(resp)
          THEN /\ acked' = [acked EXCEPT ![a] =
                              IF sret[a] = "e_loop" THEN @ ELSE @ \cup SeqIds(SendArg(a))]
               /\ posts' = [posts EXCEPT ![a] =
                              IF sret[a] = "e_loop" THEN @
                              ELSE Append(@, [ids |-> IdsOf(SendArg(a)), tries |-> Len(reqs[a]) + 1])]
               /\ collected' = collected \cup SeqIds(SendArg(a))
               /\ SendReturns(a, TRUE)
               /\ UNCHANGED slept
          ELSE IF is_client_error(resp)
          THEN /\ SendReturns(a, FALSE)
               /\ UNCHANGED <<deliv, slept>>
          ELSE /\ UNCHANGED deliv
               /\ slept' = [slept EXCEPT ![a] =
                              IF sleeps(attempt[a]) THEN Append(@, delay[a]) ELSE @]
               /\ IF loop_continues(attempt[a] + 1)
                  THEN /\ attempt' = [attempt EXCEPT ![a] = @ + 1]
                       /\ delay' = [delay EXCEPT ![a] = IF sleeps(attempt[a]) THEN @ * 2 ELSE @]
                       /\ UNCHANGED <<pc, sret, result, events, cap, cont, op, batch, last_post>>
                  ELSE SendReturns(a, FALSE)
  /\ UNCHANGED <<fsv, lock, wi, lines, loopv, snap, rot_pre, rotated, spooled>>

\* ----------------------------------------------------------- flush_spool
\* if !file_path.exists() { return Ok(()); }
flush_exists(a) ==
  /\ pc[a] = "f_exists"
  /\ IF EVENTS \in present
     THEN Goto(a, "f_acquire") /\ UNCHANGED result
     ELSE Finish(a, "ok")
  /\ UNCHANGED <<fsv, lock, cont, op, argv, lines, batch, sendv, loopv, ghostv>>

\* BufReader::new(File::open(&file_path)?): the reader's view of the file.
flush_open(a) ==
  /\ pc[a] = "f_open"
  /\ \/ IoError(a)
     \/ /\ EVENTS \in present
        /\ lines' = [lines EXCEPT ![a] = BufLines(files[EVENTS])]
        /\ batch' = [batch EXCEPT ![a] = <<>>]
        /\ Goto(a, "f_read")
        /\ UNCHANGED <<fsv, lock, cont, op, result, argv, sendv, loopv, ghostv>>

\* for line in reader.lines() { if let Ok(val) = from_str(&line) { batch.push(val);
\*   if batch.len() >= 500 { send_batch(..)?; batch.clear(); } } }
\* run up to the next send_batch call or to the end of the file.
\* batch.len() >= 500
batch_overfull(b) == Len(b) > FLUSH_CHUNK
batch_full(b) == Len(b) >= FLUSH_CHUNK

RECURSIVE ReadUntilFull_stop_at_bad_line(_, _)
ReadUntilFull_stop_at_bad_line(ls, b) ==
  IF ls = <<>> \/ batch_full(b) THEN [rest |-> ls, batch |-> b]
  ELSE IF from_str_ok(Head(ls))
       THEN ReadUntilFull_stop_at_bad_line(Tail(ls), Append(b, from_str(Head(ls))))
       ELSE [rest |-> <<>>, batch |-> b]

RECURSIVE ReadUntilFull(_, _)
ReadUntilFull(ls, b) ==
  IF ls = <<>> \/ batch_full(b) THEN [rest |-> ls, batch |-> b]
  ELSE ReadUntilFull(Tail(ls),
                     IF from_str_ok(Head(ls)) THEN Append(b, from_str(Head(ls))) ELSE b)

flush_read(a) ==
  /\ pc[a] = "f_read"
  /\ LET r == ReadUntilFull(lines[a], batch[a]) IN
       /\ lines' = [lines EXCEPT ![a] = r.rest]
       /\ batch' = [batch EXCEPT ![a] = r.batch]
       /\ IF batch_full(r.batch)
          THEN Goto(a, "s_try") /\ sret' = [sret EXCEPT ![a] = "f_loop"]
          ELSE IF r.batch # <<>>     \* if !batch.is_empty() { send_batch(..)?; }
          THEN Goto(a, "s_try") /\ sret' = [sret EXCEPT ![a] = "f_tail"]
          ELSE Goto(a, "f_create") /\ UNCHANGED sret
  /\ ClearTrace(a)
  /\ UNCHANGED <<fsv, lock, cont, op, result, argv, attempt, delay, loopv, opv>>

\* File::create(&file_path)?: truncate to zero length
flush_create(a) ==
  /\ pc[a] = "f_create"
  /\ \/ IoError(a)
     \/ /\ files' = File_create(EVENTS)
        /\ present' = present \cup {EVENTS}
        /\ Goto(a, "f_sync")
        /\ ClearTrace(a)
        /\ UNCHANGED <<lock, cont, op, result, argv, lines, batch, sendv, loopv, opv>>

\* cleared.sync_all()?; Ok(())
flush_sync(a) ==
  /\ pc[a] = "f_sync"
  /\ \/ IoError(a)
     \/ /\ Finish(a, "ok")
        /\ UNCHANGED <<fsv, lock, cont, op, argv, lines, batch, sendv, loopv, ghostv>>

\* ---------------------------------------------------------------- jitter
U64_MAX == 2^U64_BITS - 1
NoJitter == [called |-> FALSE, ms |-> 0, panicked |-> FALSE, out |-> 0]

\* rng.random_range((ms / 2)..=(ms + ms / 2)): any value of the inclusive range.
\* When ms + ms / 2 exceeds u64 the sum panics (overflow checks on) or wraps to a
\* value below ms / 2, and random_range panics on the empty range: no value.
random_range_wide(ms) == 0..(2 * ms)
random_range(ms) ==
  LET lo == ms \div 2
      hi == ms + ms \div 2
  IN IF hi <= U64_MAX THEN lo..hi ELSE {}

\* fn jitter(d: Duration) -> Duration, d.as_millis() being ms
jitter(ms) ==
  /\ ~jit.called
  /\ IF random_range(ms) = {}
     THEN jit' = [called |-> TRUE, ms |-> ms, panicked |-> TRUE, out |-> 0]
     ELSE \E v \in random_range(ms) :
            jit' = [called |-> TRUE, ms |-> ms, panicked |-> FALSE, out |-> v]
  /\ UNCHANGED <<fsv, lock, pc, cont, op, result, argv, lines, batch, sendv,
                 buf, buf_bytes, qv, nextId, due, feedv, collector, connv, ghostv>>

\* ------------------------------------------------------------- http_loop
LineKinds == {"record", "parse error", "mapping error"}

\* let _ = flush_spool(..) before the loop
http_loop_start ==
  /\ pc[Egress] = "e_start"
  /\ Goto(Egress, "f_exists")
  /\ cont' = [cont EXCEPT ![Egress] = "e_recv"]
  /\ op' = [op EXCEPT ![Egress] = "flush"]
  /\ UNCHANGED <<fsv, lock, result, argv, lines, batch, sendv, loopv, ghostv>>

\* last.elapsed() >= timeout can be observed either way while the timer has not
\* been seen to expire, and only true once it has.
last_elapsed(d) == IF d THEN {TRUE} ELSE BOOLEAN
\* rx.recv_timeout(timeout) that returns Timeout has waited the whole of
\* `timeout`, and `last` was set before the wait began: the time is up.
elapsed_as_before(d) == d
elapsed_after_timeout(d) == TRUE
\* last = Instant::now(): the timer starts again
Instant_stale(d) == d
Instant_now(d) == FALSE

time_due_on_empty(elapsed, b) == elapsed
time_due(elapsed, b) == elapsed /\ b # <<>>
size_due_above(b, bytes) == Len(b) > config.batch_size \/ bytes > config.batch_bytes
size_due(b, bytes) == Len(b) >= config.batch_size \/ bytes >= config.batch_bytes

\* The end of an iteration: the trigger check and the call of send_batch.
Trigger(elapsed, b, bytes) ==
  IF time_due(elapsed, b) \/ size_due(b, bytes)
  THEN Goto(Egress, "s_try") /\ sret' = [sret EXCEPT ![Egress] = "e_loop"]
  ELSE UNCHANGED <<pc, sret>>

\* serde_json::from_str::<Json>(&line) and from_tap_frame(frame) both return Ok
accepted_always(line) == TRUE
accepted(line) == line.kind = "record"

\* The lines rx.recv_timeout can return: the head of the channel, or, where the
\* producers are not modelled one by one (`feed`), any line they may have sent.
Line(i, kind, size) == [id |-> i, kind |-> kind, sz |-> size]
Incoming ==
  IF chan # <<>> THEN {Head(chan)}
  ELSE IF nextId < MaxRecs
       THEN {Line(nextId + 1, kind, size) : kind \in feed, size \in 1..MaxRecBytes}
       ELSE {}
Received(line) ==
  IF chan # <<>>
  THEN chan' = Tail(chan) /\ UNCHANGED nextId
  ELSE nextId' = nextId + 1 /\ UNCHANGED chan

\* A Sender of the channel is alive: run_unix's `tx` or a connection thread's clone.
NoLine == Line(0, "blank", 0)
Senders == (IF main_tx THEN {"main"} ELSE {}) \cup {c \in Conns : cpc[c] \in {"read", "send"}}

\* Err(chan::RecvTimeoutError::Timeout) => {}, Err(..::Disconnected) => break
breaks_on_any_error(e) == TRUE
breaks(e) == e = "Disconnected"

\* append_to_quarantine opens quarantine.jsonl without a SpoolLockGuard: it
\* waits for nobody.
append_to_quarantine_under_lock == lock = {}
append_to_quarantine_proceeds == TRUE

\* One iteration of `loop`: rx.recv_timeout(timeout) and the handling of the line.
\* `elapsed` is last.elapsed() >= timeout: true after a receive timeout, and true
\* from then on until `last` is set again.
http_loop_recv ==
  /\ pc[Egress] = "e_recv"
  /\ \/ \* Ok(line)
        /\ \E line \in Incoming, elapsed \in last_elapsed(due) :
             /\ Received(line)
             /\ due' = elapsed
             /\ IF accepted(line)
                THEN /\ buf' = Append(buf, Rec(line.id, line.sz))
                     /\ buf_bytes' = buf_bytes + line.sz
                     /\ UNCHANGED qv
                     /\ Trigger(elapsed, buf', buf_bytes')
                ELSE \* let _ = append_to_quarantine(..): a failed write is swallowed
                     /\ append_to_quarantine_proceeds
                     /\ \E written \in BOOLEAN :
                          quarantine' = IF written
                                        THEN Append(quarantine, [reason |-> line.kind, raw |-> line.id])
                                        ELSE quarantine
                     /\ qlock' = lock
                     /\ UNCHANGED <<buf, buf_bytes>>
                     /\ Trigger(elapsed, buf, buf_bytes)
        /\ UNCHANGED <<feedv, jit, collector, main_tx, sock, cpc, held, entered>>
     \/ \* Err(RecvTimeoutError::Timeout)
        /\ chan = <<>>
        /\ due' = elapsed_after_timeout(due)
        /\ IF breaks("Timeout")
           THEN Goto(Egress, "done") /\ UNCHANGED sret
           ELSE Trigger(due', buf, buf_bytes)
        /\ UNCHANGED <<buf, buf_bytes, qv, nextId, inputv>>
  /\ UNCHANGED <<fsv, lock, cont, op, result, argv, lines, batch, attempt, delay, ghostv>>

\* Err(RecvTimeoutError::Disconnected) => break
http_loop_disconnected ==
  /\ pc[Egress] = "e_recv"
  /\ chan = <<>> /\ Senders = {}
  /\ breaks("Disconnected")
  /\ Goto(Egress, "done")
  /\ UNCHANGED <<fsv, lock, cont, op, result, argv, lines, batch, sendv, loopv, ghostv>>

\* buf.clear(); buf_bytes = 0; last = Instant::now(); let _ = flush_spool(..)
Vec_kept(b) == b
Vec_clear(b) == <<>>

http_loop_clear ==
  /\ pc[Egress] = "e_clear"
  /\ buf' = Vec_clear(buf)
  /\ buf_bytes' = 0
  /\ events' = [events EXCEPT ![Egress] = <<>>]
  /\ Goto(Egress, "f_exists")
  /\ cont' = [cont EXCEPT ![Egress] = "e_recv"]
  /\ op' = [op EXCEPT ![Egress] = "flush"]
  /\ due' = Instant_now(due)
  /\ ClearTrace(Egress)
  /\ UNCHANGED <<fsv, lock, result, cap, wi, lines, batch, sendv, qv, nextId, inputv, opv>>

\* ------------------------------------------ run_unix, handle_conn_unix
ConnKinds == LineKinds \cup {"blank"}
ConnNo(c) == IF c = "c1" THEN 0 ELSE 1
\* The k-th line a producer wrote to connection c.
LineId(c, k) == ConnNo(c) * MaxConnLines + k
ConnOf(i) == IF i <= MaxConnLines THEN "c1" ELSE "c2"

locv == <<fsv, lock, pc, cont, op, result, argv, lines, batch, sendv,
          buf, buf_bytes, qv, nextId, due, feedv, jit, collector, ghostv>>

\* for stream in listener.incoming().flatten() { thread::spawn(handle_conn_unix) }
run_unix_accept(c) ==
  /\ main_tx
  /\ cpc[c] = "off"
  /\ cpc' = [cpc EXCEPT ![c] = "read"]
  /\ UNCHANGED <<locv, main_tx, sock, held, chan, entered>>

\* !line.trim().is_empty()
forwards(line) == line.kind # "blank"

\* for line in reader.lines().map_while(Result::ok): the next line of the
\* stream, its end, or a read error, which ends the loop like the end does; the
\* thread returns and its Sender is dropped.
handle_conn_read(c) ==
  /\ cpc[c] = "read"
  /\ \/ /\ sock[c] # <<>>
        /\ sock' = [sock EXCEPT ![c] = Tail(@)]
        /\ IF forwards(Head(sock[c]))
           THEN /\ held' = [held EXCEPT ![c] = Head(sock[c])]
                /\ cpc' = [cpc EXCEPT ![c] = "send"]
           ELSE UNCHANGED <<held, cpc>>
     \/ /\ cpc' = [cpc EXCEPT ![c] = "closed"]
        /\ UNCHANGED <<sock, held>>
  /\ UNCHANGED <<locv, main_tx, chan, entered>>

\* The channel is a queue: a message sent goes behind those already in it.
enqueue_in_front(q, x) == <<x>> \o q
enqueue(q, x) == Append(q, x)

\* A bounded channel takes a message while it holds fewer than its capacity.
has_room_always == TRUE
has_room == Len(chan) < chan_capacity

\* let _ = tx.send(line): blocks while the channel is full; returns Err at once,
\* and the line is dropped, when the Receiver is gone.
handle_conn_send(c) ==
  /\ cpc[c] = "send"
  /\ IF pc[Egress] = "done"
     THEN UNCHANGED <<chan, entered>>
     ELSE /\ has_room
          /\ chan' = enqueue(chan, held[c])
          /\ entered' = Append(entered, held[c].id)
  /\ held' = [held EXCEPT ![c] = NoLine]
  /\ cpc' = [cpc EXCEPT ![c] = "read"]
  /\ UNCHANGED <<locv, main_tx, sock>>

ConnStep(c) == handle_conn_read(c) \/ handle_conn_send(c)

\* ------------------------------------------------ main: Cmd::Flush
\* flush_spool(&client, &endpoint, api_key.as_deref(), &spool_dir)?
\* `after` is "idle" when the operator may run the command again, "done" when the
\* process is spawned once (Command::new(&agent_path).arg("flush") in mod tests).
main_flush(after) ==
  /\ pc[FlushProc] = "idle"
  /\ Goto(FlushProc, "f_exists")
  /\ cont' = [cont EXCEPT ![FlushProc] = after]
  /\ op' = [op EXCEPT ![FlushProc] = "flush"]
  /\ UNCHANGED <<fsv, lock, result, argv, lines, batch, sendv, loopv, ghostv>>

\* ------------------------------------ threads of the test module (mod tests)
RecSeqs(first, n) ==
  { s \in [1..n -> {Rec(i, z) : i \in first..(first + n - 1), z \in 1..MaxRecBytes}] :
      \A k \in 1..n : s[k].id = first + k - 1 }

\* thread::spawn(move || append_to_spool(&dir, &events, cap_bytes))
test_thread_append(a) ==
  /\ a \in Threads
  /\ pc[a] = "idle"
  /\ \E n \in 1..(MaxRecs - nextId), c \in {spool_bytes, large_cap} :
       \E evs \in RecSeqs(nextId + 1, n) :
         /\ events' = [events EXCEPT ![a] = evs]
         /\ cap' = [cap EXCEPT ![a] = c]
         /\ nextId' = nextId + n
  /\ Goto(a, "a_mkdir")
  /\ cont' = [cont EXCEPT ![a] = "done"]
  /\ op' = [op EXCEPT ![a] = "append"]
  /\ UNCHANGED <<fsv, lock, result, wi, lines, batch, sendv, buf, buf_bytes, qv, due, inputv, ghostv>>

\* let _lock = SpoolLockGuard::acquire(&dir).unwrap(); rotate_spool_file(..).unwrap()
test_thread_rotate(a) ==
  /\ a \in Threads
  /\ pc[a] = "idle"
  /\ Goto(a, "t_acquire")
  /\ cont' = [cont EXCEPT ![a] = "done"]
  /\ op' = [op EXCEPT ![a] = "rotate"]
  /\ UNCHANGED <<fsv, lock, result, argv, lines, batch, sendv, loopv, ghostv>>

\* ------------------------------------------------------ specifications
LockStep(a) ==
  \/ SpoolLockGuard_acquire(a)
  \/ Return(a)

AppendStep(a) ==
  \/ append_mkdir(a)
  \/ append_open(a)
  \/ append_write_line(a)
  \/ append_write_nl(a)
  \/ append_sync(a)
  \/ append_stat(a)
  \/ rotate_rename(a)
  \/ rotate_read(a)
  \/ rotate_create(a)
  \/ rotate_write(a)
  \/ rotate_sync(a)
  \/ rotate_remove(a)

FlushStep(a) ==
  \/ flush_exists(a)
  \/ flush_open(a)
  \/ flush_read(a)
  \/ flush_create(a)
  \/ flush_sync(a)
  \/ send_batch(a)

\* ------------------------------------------------- map.rs: from_tap_frame
U32_MAX == 2^U32_BITS - 1
I64_MAX == 2^(U64_BITS - 1) - 1

\* JSON values: a string, a number, a boolean, null, an absent member, or an
\* object (a function from its member names to values).
Absent == [t |-> "absent"]
Null == [t |-> "null"]
Str(s) == [t |-> "str", v |-> s]
Num(n) == [t |-> "num", n |-> n]
Bool(b) == [t |-> "bool", b |-> b]
FrameValue == Str("frame")
FrameTs == Str("frame ts")
TranscriptValue == Str("transcript")
JsonObject(o) == [t |-> "obj", o |-> o]
EmptyObject == JsonObject([k \in {} |-> Absent])
\* The object whose members are the fields of c that are not Absent.
Members(c) == JsonObject([k \in {j \in DOMAIN c : c[j] # Absent} |-> c[k]])

\* v.get(k)
get(v, k) == IF v.t = "obj" /\ k \in DOMAIN v.o THEN v.o[k] ELSE Absent
\* if let Some(obj) = v.as_object_mut() { obj.insert(k, x); }
insert(v, k, x) ==
  IF v.t = "obj"
  THEN JsonObject([j \in (DOMAIN v.o) \cup {k} |-> IF j = k THEN x ELSE v.o[j]])
  ELSE v
\* .and_then(|x| x.as_str()): the value if it is a string, else None (Absent)
as_str(v) == IF v.t = "str" THEN v ELSE Absent
\* .and_then(|x| x.as_str()).unwrap_or("")
str_or_empty(v) == IF v.t = "str" THEN v.v ELSE ""
\* .and_then(|x| x.as_bool()).unwrap_or(false)
bool_or_false(v) == IF v.t = "bool" THEN v.b ELSE FALSE
\* v.as_u64().unwrap_or(0)
u64_or_0(v) == IF v.t = "num" /\ v.n >= 0 /\ v.n <= U64_MAX THEN v.n ELSE 0

\* fn as_u32_sat(v: &Json) -> u32
as_u32_sat(v) == IF u64_or_0(v) <= U32_MAX THEN u64_or_0(v) ELSE U32_MAX
\* x.map(as_u32_sat).unwrap_or(0)
map_as_u32_sat(v) == IF v = Absent THEN 0 ELSE as_u32_sat(v)
\* .and_then(|v| v.as_i64()).map(|v| v as u32).unwrap_or(0)
as_i64_as_u32(v) ==
  IF v.t = "num" /\ v.n >= -I64_MAX - 1 /\ v.n <= I64_MAX THEN v.n % 2^U32_BITS ELSE 0

\* ---- the frames from_tap_frame is called with
FrameUsage ==
  Members([prompt_tokens |-> Num(1), completion_tokens |-> Num(2),
           total_tokens |-> Num(3), token_counts_estimated |-> Bool(TRUE)])
FrameUsages ==
  {Members([prompt_tokens |-> p, completion_tokens |-> Num(2),
            total_tokens |-> n, token_counts_estimated |-> e]) :
     p \in {Absent, Num(1), Num(U32_MAX + 1)}, n \in {Num(3), Num(U32_MAX + 1)},
     e \in {Absent, Bool(TRUE)}} \cup {FrameValue}
FrameLatency ==
  Members([first_token |-> Num(U32_MAX + 1), provider |-> Num(1), total |-> Num(2)])
\* Payloads for the enrichment: any of the members enrichment reads or writes,
\* or a payload that is not an object.
PayloadsEnrich ==
  {Members(c) : c \in [model : {Absent, FrameValue}, usage : {Absent, FrameUsage},
                       finish_reason : {Absent, FrameValue},
                       timestamp : {Absent, FrameValue, Num(1)},
                       transcript_path : {Absent, FrameValue}]} \cup {FrameValue}
\* Payloads for the numeric extraction: numbers inside and outside the u32 range.
PayloadsNumeric ==
  {Members(c) : c \in [usage : FrameUsages \cup {Absent},
                       top_k : {Absent, Num(1), Num(U32_MAX + 1), Num(-1)},
                       max_tokens : {Absent, Num(U32_MAX + 2)},
                       latency_ms : {Absent, FrameLatency}]}
Payloads == PayloadsEnrich \cup PayloadsNumeric

FastMetrics ==
  [prompt_tokens |-> 1, completion_tokens |-> 2, total_tokens |-> 3,
   token_counts_estimated |-> TRUE]
FastOutputs ==
  [input_tokens |-> 1, output_tokens |-> 2, total_tokens |-> 3, tokens_estimated |-> TRUE]
NoMetrics ==
  [prompt_tokens |-> 0, completion_tokens |-> 0, total_tokens |-> 0,
   token_counts_estimated |-> FALSE]
NoOutputs ==
  [input_tokens |-> 0, output_tokens |-> 0, total_tokens |-> 0, tokens_estimated |-> FALSE]

FastFrames ==
  [schema_version : {TRUE}, ids : {"valid", "invalid"}, ts : {Absent}, pid : {Absent},
   payload : {Absent, FrameValue},
   extensions : {Absent, EmptyObject, JsonObject([k \in {"tap.raw"} |-> FrameValue])},
   metrics : {Absent, FastMetrics}, outputs : {Absent, FastOutputs}]
LegacyFrames ==
  {f \in [schema_version : BOOLEAN, ids : {"absent", "valid"},
          ts : {Absent, Str(""), FrameTs}, pid : {Absent},
          payload : PayloadsEnrich \cup {Absent},
          extensions : {Absent}, metrics : {Absent}, outputs : {Absent}] :
     ~(f.schema_version /\ f.ids # "absent")}
  \cup
  [schema_version : {FALSE}, ids : {"absent"}, ts : {FrameTs},
   pid : {Absent, Num(1), Num(U32_MAX + 1)}, payload : PayloadsNumeric,
   extensions : {Absent}, metrics : {Absent}, outputs : {Absent}]
Frames == FastFrames \cup LegacyFrames

\* What read_latest_assistant_message returns: None, or the last transcript entry
\* of type "assistant" whose message has a usage.
TranscriptUsages ==
  {Members([input_tokens |-> i, cache_creation_input_tokens |-> c,
            cache_read_input_tokens |-> Num(4), output_tokens |-> o]) :
     i \in {Absent, Num(1), Num(U32_MAX), Num(U64_MAX)}, c \in {Absent, Num(2)},
     o \in {Absent, Num(8)}}
Transcripts ==
  {Absent} \cup [t : {"entry"}, model : BOOLEAN, stop_reason : BOOLEAN,
                 timestamp : BOOLEAN, usage : TranscriptUsages]
\* The transcript the frame's payload names, if it names one.
TranscriptsOf(f) ==
  IF as_str(get(f.payload, "transcript_path")) # Absent THEN Transcripts ELSE {Absent}

\* input_tokens + cache_creation + cache_read, and the same + output_tokens, in
\* u64: an overflow panics (overflow checks on) or wraps (off).
prompt_sum_without_cache(u) == u64_or_0(get(u, "input_tokens"))
prompt_sum(u) ==
  u64_or_0(get(u, "input_tokens")) + u64_or_0(get(u, "cache_creation_input_tokens"))
    + u64_or_0(get(u, "cache_read_input_tokens"))
total_sum(u) == prompt_sum(u) + u64_or_0(get(u, "output_tokens"))
overflows(u) == total_sum(u) > U64_MAX
wrapping(n) == n % 2^U64_BITS

enriched_usage(u) ==
  Members([prompt_tokens |-> Num(wrapping(prompt_sum(u))),
           completion_tokens |-> Num(u64_or_0(get(u, "output_tokens"))),
           total_tokens |-> Num(wrapping(total_sum(u))),
           token_counts_estimated |-> Bool(FALSE)])

\* if payload.get("timestamp").is_none() && let Some(timestamp) = ..
timestamp_missing_or_not(p) == TRUE
timestamp_missing(p) == get(p, "timestamp") = Absent

\* fn enrich_from_transcript(payload: &mut Json, latest_msg: &Json)
enrich_from_transcript(payload, m) ==
  LET p1 == IF m.model THEN insert(payload, "model", TranscriptValue) ELSE payload
      p2 == insert(p1, "usage", enriched_usage(m.usage))
      p3 == IF m.stop_reason THEN insert(p2, "finish_reason", TranscriptValue) ELSE p2
  IN IF timestamp_missing(p3) /\ m.timestamp
     THEN insert(p3, "timestamp", TranscriptValue)
     ELSE p3

\* serde_json::from_value::<TraceV1>(v): the frame's own members, member by
\* member; a member the frame lacks takes its default.
from_value_TraceV1(v) ==
  [ok |-> TRUE, path |-> "fast",
   metrics |-> IF v.metrics = Absent THEN NoMetrics ELSE v.metrics,
   outputs |-> IF v.outputs = Absent THEN NoOutputs ELSE v.outputs,
   extensions |-> IF v.extensions = Absent THEN Null ELSE v.extensions]

agentv == <<fsv, lock, pc, cont, op, result, argv, lines, batch, sendv, buf, buf_bytes,
            qv, nextId, due, feed, config, jit, collector, connv, ghostv>>
nomapv == <<agentv, tap>>

\* if v.get("schema_version").is_some() && v.get("ids").is_some() { return .. }
from_tap_frame_fast ==
  /\ mapper.pc = "start"
  /\ mapper.frame.schema_version /\ mapper.frame.ids # "absent"
  /\ mapper' = [mapper EXCEPT
       !.pc = "done",
       !.out = IF mapper.frame.ids = "valid"
               THEN from_value_TraceV1(mapper.frame)
               ELSE [ok |-> FALSE, path |-> "fast"]]
  /\ UNCHANGED nomapv

\* let mut payload = v.get("payload").cloned().unwrap_or_else(..);
\* let raw_payload_for_audit = payload.clone();
from_tap_frame_payload ==
  /\ mapper.pc = "start"
  /\ ~(mapper.frame.schema_version /\ mapper.frame.ids # "absent")
  /\ LET payload == IF mapper.frame.payload = Absent THEN EmptyObject
                    ELSE mapper.frame.payload
     IN mapper' = [mapper EXCEPT !.pc = "enrich", !.payload = payload, !.raw = payload]
  /\ UNCHANGED nomapv

\* let latest_msg = if let Some(transcript_path) = .. { .. enrich_from_transcript .. }
from_tap_frame_enrich ==
  /\ mapper.pc = "enrich"
  /\ IF as_str(get(mapper.payload, "transcript_path")) # Absent /\ mapper.transcript # Absent
     THEN \/ /\ overflows(mapper.transcript.usage)
             /\ mapper' = [mapper EXCEPT !.pc = "panicked"]
          \/ mapper' = [mapper EXCEPT
               !.pc = "build",
               !.payload = enrich_from_transcript(@, mapper.transcript)]
     ELSE mapper' = [mapper EXCEPT !.pc = "build"]
  /\ UNCHANGED nomapv

\* let timestamp = if !ts.is_empty() { ts } else if let Some(ts) = payload.get("timestamp")..
timestamp_cascade(ts, payload) ==
  IF str_or_empty(ts) # "" THEN str_or_empty(ts)
  ELSE str_or_empty(get(payload, "timestamp"))

\* if let Some(u) = payload.get("usage") { .. }: the counts, for metrics
usage_counts(payload) ==
  LET u == get(payload, "usage")
  IN IF u = Absent THEN NoMetrics
     ELSE [prompt_tokens |-> map_as_u32_sat(get(u, "prompt_tokens")),
           completion_tokens |-> map_as_u32_sat(get(u, "completion_tokens")),
           total_tokens |-> map_as_u32_sat(get(u, "total_tokens")),
           token_counts_estimated |-> bool_or_false(get(u, "token_counts_estimated"))]
\* t.outputs.input_tokens = prompt_tokens; .. : the same locals, for outputs
outputs_of(m) ==
  [input_tokens |-> m.prompt_tokens, output_tokens |-> m.completion_tokens,
   total_tokens |-> m.total_tokens, tokens_estimated |-> m.token_counts_estimated]

\* if let Some(l) = payload.get("latency_ms") { .. }
latency_of(payload) ==
  LET l == get(payload, "latency_ms")
  IN [first_token |-> map_as_u32_sat(get(l, "first_token")),
      provider |-> map_as_u32_sat(get(l, "provider")),
      total |-> map_as_u32_sat(get(l, "total"))]

\* the TraceV1 built from the enriched payload; ext.insert("tap.raw", raw_payload_for_audit)
from_tap_frame_build ==
  /\ mapper.pc = "build"
  /\ mapper' = [mapper EXCEPT
       !.pc = "done",
       !.out = [ok |-> TRUE, path |-> "legacy",
                timestamp |-> timestamp_cascade(mapper.frame.ts, mapper.payload),
                pid |-> map_as_u32_sat(mapper.frame.pid),
                model |-> get(mapper.payload, "model"),
                top_k |-> as_i64_as_u32(get(mapper.payload, "top_k")),
                max_tokens |-> as_i64_as_u32(get(mapper.payload, "max_tokens")),
                finish_reason |-> get(mapper.payload, "finish_reason"),
                metrics |-> usage_counts(mapper.payload),
                outputs |-> outputs_of(usage_counts(mapper.payload)),
                latency_ms |-> latency_of(mapper.payload),
                extensions |-> JsonObject([k \in {"tap.raw"} |-> mapper.raw])]]
  /\ UNCHANGED nomapv

NoMapper == [pc |-> "off"]

\* ------------------------------------------------------ talon-tap.rs: main
StdinKinds == {"json", "not json", "empty", "over max_bytes"}
Events == {"PostToolUse", "ModelEnd", "SessionStart"}
SendResults == {"ok", "connect error", "write error"}
NoTap == [pc |-> "off"]

\* serde_json::from_str(buffer.trim()).unwrap_or_else(|_| json!({})): what the
\* envelope carries as payload. Input cut at max_bytes no longer parses.
payload_json(stdin) == IF stdin = "json" THEN "stdin" ELSE "{}"

\* fn try_send: connect, write_all, write_all, flush; any `?` may fail, and
\* connect fails when no agent listens on the socket.
try_send(listening) == IF listening THEN SendResults ELSE {"connect error"}

\* start_agent(&ipc_path)?: a failed spawn leaves the closure at once
after_start_agent_retry(spawned) == "sleep"
after_start_agent(spawned) == IF spawned THEN "sleep" ELSE "exit"

\* let cli = Cli::parse(); .. let serialized = serde_json::to_string(&envelope)
tap_envelope ==
  /\ tap.pc = "start"
  /\ tap' = [tap EXCEPT !.pc = "send",
                        !.envelope = [event |-> tap.event, payload |-> payload_json(tap.stdin)]]
  /\ UNCHANGED <<agentv, mapper>>

\* try_send(&ipc_path, serialized.as_bytes()), first or second call
tap_try_send ==
  /\ tap.pc = "send"
  /\ \E r \in try_send(tap.listening) :
       tap' = [tap EXCEPT
         !.sends = Append(@, r),
         !.received = IF r = "ok" THEN Append(@, tap.envelope) ELSE @,
         !.sent = (r = "ok"),
         !.pc = IF r = "ok" \/ tap.sends # <<>> THEN "exit" ELSE "spawn"]
  /\ UNCHANGED <<agentv, mapper>>

\* .or_else(|_| { start_agent(&ipc_path)?; ..
tap_start_agent ==
  /\ tap.pc = "spawn"
  /\ \E spawned \in BOOLEAN :
       tap' = [tap EXCEPT !.spawns = Append(@, spawned),
                          !.pc = after_start_agent(spawned)]
  /\ UNCHANGED <<agentv, mapper>>

\* std::thread::sleep(Duration::from_millis(150)): the agent spawned has created
\* its socket by now, or has not
tap_sleep ==
  /\ tap.pc = "sleep"
  /\ \E up \in BOOLEAN :
       tap' = [tap EXCEPT !.listening = @ \/ (up /\ tap.spawns[Len(tap.spawns)]),
                          !.pc = "send"]
  /\ UNCHANGED <<agentv, mapper>>

\* if !sent { eprintln!(..); std::process::exit(1); }
tap_exit ==
  /\ tap.pc = "exit"
  /\ tap' = [tap EXCEPT !.pc = "done", !.status = IF tap.sent THEN 0 ELSE 1]
  /\ UNCHANGED <<agentv, mapper>>

\* No run_unix: no listener, no connection, no channel traffic.
NoIngest ==
  /\ main_tx = FALSE
  /\ sock = [c \in Conns |-> <<>>]
  /\ cpc = [c \in Conns |-> "off"]
  /\ held = [c \in Conns |-> NoLine]
  /\ chan = <<>>
  /\ entered = <<>>

\* Config as the command line gives it
Config(size, bytes) == [batch_size |-> size, batch_bytes |-> bytes]

InitState ==
  /\ lock = {}
  /\ cont = [a \in Actors |-> "idle"]
  /\ op = [a \in Actors |-> "none"]
  /\ result = [a \in Actors |-> "none"]
  /\ events = [a \in Actors |-> <<>>]
  /\ cap = [a \in Actors |-> spool_bytes]
  /\ wi = [a \in Actors |-> 0]
  /\ lines = [a \in Actors |-> <<>>]
  /\ batch = [a \in Actors |-> <<>>]
  /\ attempt = [a \in Actors |-> 0]
  /\ delay = [a \in Actors |-> BASE_DELAY_MS]
  /\ sret = [a \in Actors |-> "none"]
  /\ buf = <<>>
  /\ buf_bytes = 0
  /\ quarantine = <<>>
  /\ qlock = {}
  /\ acked = [a \in Actors |-> {}]
  /\ posts = [a \in Actors |-> <<>>]
  /\ collected = {}
  /\ snap = [a \in Actors |-> <<>>]
  /\ rot_pre = [a \in Actors |-> <<>>]
  /\ rotated = [a \in Actors |-> FALSE]
  /\ reqs = [a \in Actors |-> <<>>]
  /\ slept = [a \in Actors |-> <<>>]
  /\ last_post = "none"
  /\ due = FALSE
  /\ jit = NoJitter

InitLocal == InitState /\ config = Config(batch_size, batch_bytes)

InitCommon == InitLocal /\ NoIngest /\ collector = Responses /\ mapper = NoMapper /\ tap = NoTap

\* A spool directory as an earlier run (or the test's first append_to_spool) left
\* it: n0 records in events.jsonl, or no file at all.
InitialSpool(n0) == WriteLines([k \in 1..n0 |-> to_string(Rec(k, 1))])

InitSpool ==
  \E n0 \in 0..(MaxRecs - 1) :
    /\ files = [f \in FileNames |-> IF f = EVENTS THEN InitialSpool(n0) ELSE <<>>]
    /\ present = IF n0 = 0 THEN {} ELSE {EVENTS}
    /\ spooled = (n0 > 0)
    /\ nextId = n0

\* The agent (`start`) with an operator running `flush` beside it.
Init ==
  /\ InitCommon
  /\ InitSpool
  /\ feed = {"record"}
  /\ pc = [a \in Actors |-> IF a = Egress THEN "e_start"
                            ELSE IF a = FlushProc THEN "idle" ELSE "off"]

Next ==
  \/ http_loop_start
  \/ http_loop_recv
  \/ http_loop_disconnected
  \/ http_loop_clear
  \/ main_flush("idle")
  \/ \E a \in Actors : LockStep(a)
  \/ \E a \in Actors : AppendStep(a)
  \/ \E a \in Actors : FlushStep(a)

Spec == Init /\ [][Next]_vars

\* The test module: two threads that each call the spool API once on a spool
\* the test's first append_to_spool has filled.
InitThreads ==
  /\ InitCommon
  /\ InitSpool
  /\ feed = {}
  /\ pc = [a \in Actors |-> IF a \in Threads THEN "idle" ELSE "off"]

NextThreads ==
  \/ \E a \in Threads : test_thread_append(a)
  \/ \E a \in Threads : test_thread_rotate(a)
  \/ \E a \in Actors : LockStep(a)
  \/ \E a \in Actors : AppendStep(a)

SpecThreads == InitThreads /\ [][NextThreads]_vars

\* test_cross_process_locking: one thread appends while a spawned
\* `talon-agent flush` process drains the same spool directory.
InitCross ==
  /\ InitCommon
  /\ InitSpool
  /\ feed = {}
  /\ pc = [a \in Actors |-> IF a \in {"tB", FlushProc} THEN "idle" ELSE "off"]

NextCross ==
  \/ test_thread_append("tB")
  \/ main_flush("done")
  \/ \E a \in Actors : LockStep(a)
  \/ \E a \in Actors : AppendStep(a)
  \/ \E a \in Actors : FlushStep(a)

SpecCross == InitCross /\ [][NextCross]_vars

\* `talon-agent flush` alone, on a spool directory holding whatever an earlier
\* run left: up to MaxSpoolLines lines, each a record or a line that is not JSON
\* (a torn write, or a write joined to one), or an empty file, or no file.
SpoolLineKinds == {"record", "not json"}
SpoolLine(kind, k) == IF kind = "record" THEN to_string(Rec(k, 1)) ELSE <<Fragment(Rec(k, 1))>>

InitFlush ==
  /\ InitCommon
  /\ \E n \in 0..MaxSpoolLines :
       \E kinds \in [1..n -> SpoolLineKinds] :
         /\ files = [f \in FileNames |->
                       IF f = EVENTS THEN WriteLines([k \in 1..n |-> SpoolLine(kinds[k], k)])
                       ELSE <<>>]
         /\ present \in (IF n = 0 THEN {{}, {EVENTS}} ELSE {{EVENTS}})
         /\ spooled = (n > 0)
         /\ nextId = n
  /\ feed = {}
  /\ pc = [a \in Actors |-> IF a = FlushProc THEN "idle" ELSE "off"]

NextFlush ==
  \/ main_flush("done")
  \/ \E a \in Actors : LockStep(a)
  \/ \E a \in Actors : FlushStep(a)

SpecFlush == InitFlush /\ [][NextFlush]_vars

\* http_loop alone with every --batch-size from 1 up and --batch-bytes from 0
\* up, an empty spool directory and a collector that may answer anything.
InitBatch ==
  /\ InitState
  /\ NoIngest
  /\ \E size \in 1..batch_size, bytes \in 0..batch_bytes : config = Config(size, bytes)
  /\ collector = Responses
  /\ mapper = NoMapper /\ tap = NoTap
  /\ files = [f \in FileNames |-> <<>>]
  /\ present = {}
  /\ spooled = FALSE
  /\ nextId = 0
  /\ feed = {"record"}
  /\ pc = [a \in Actors |-> IF a = Egress THEN "e_start" ELSE "off"]

NextBatch ==
  \/ http_loop_start
  \/ http_loop_recv
  \/ http_loop_disconnected
  \/ http_loop_clear
  \/ LockStep(Egress)
  \/ AppendStep(Egress)
  \/ FlushStep(Egress)

SpecBatch == InitBatch /\ [][NextBatch]_vars

\* `talon-agent flush` run again and again on the same spool directory.
NextReflush ==
  \/ main_flush("idle")
  \/ \E a \in Actors : LockStep(a)
  \/ \E a \in Actors : FlushStep(a)

SpecReflush == InitFlush /\ [][NextReflush]_vars

\* `talon-agent start`: run_unix accepts connections, each handled by a thread
\* that forwards its producer's lines into the channel http_loop receives from.
\* The spool directory is empty and the collector answers 2xx.
SockLines == UNION {[1..n -> ConnKinds] : n \in 0..MaxConnLines}

InitIngest ==
  /\ InitLocal
  /\ mapper = NoMapper /\ tap = NoTap
  /\ files = [f \in FileNames |-> <<>>]
  /\ present = {}
  /\ spooled = FALSE
  /\ nextId = 0
  /\ feed = {}
  /\ collector = {"2xx"}
  /\ main_tx = TRUE
  /\ \E kinds \in [Conns -> SockLines] :
       sock = [c \in Conns |-> [k \in 1..Len(kinds[c]) |-> Line(LineId(c, k), kinds[c][k], 1)]]
  /\ cpc = [c \in Conns |-> "off"]
  /\ held = [c \in Conns |-> NoLine]
  /\ chan = <<>>
  /\ entered = <<>>
  /\ pc = [a \in Actors |-> IF a = Egress THEN "e_start" ELSE "off"]

\* With that collector every POST succeeds at its first attempt, so nothing is
\* spooled and every flush_spool returns at the missing file: the egress thread
\* takes no step of append_to_spool, of rotation or of the lock.
EgressStep ==
  \/ http_loop_start
  \/ http_loop_recv
  \/ http_loop_clear
  \/ flush_exists(Egress)
  \/ send_batch(Egress)
  \/ Return(Egress)

NextIngest ==
  \/ \E c \in Conns : run_unix_accept(c)
  \/ \E c \in Conns : ConnStep(c)
  \/ EgressStep

SpecIngest == InitIngest /\ [][NextIngest]_vars

\* The same for producers that write records and blank lines, with the scheduling
\* the liveness claims rest on: a connection thread that can read or send does,
\* and so does the egress thread.
InitIngestRecords ==
  /\ InitIngest
  /\ \A c \in Conns : \A k \in 1..Len(sock[c]) : sock[c][k].kind \in {"record", "blank"}

FairSpecIngest ==
  /\ InitIngestRecords
  /\ [][NextIngest]_vars
  /\ WF_vars(EgressStep)
  /\ \A c \in Conns : WF_vars(run_unix_accept(c)) /\ WF_vars(ConnStep(c))

\* `talon-agent start` with one producer, beside an operator's `talon-agent
\* flush` on a spool an earlier run left. The collector answers 2xx, so nothing
\* is appended to the spool.
InitQuarantine ==
  /\ InitLocal
  /\ mapper = NoMapper /\ tap = NoTap
  /\ \E n0 \in 1..(MaxRecs - 1) :
       files = [f \in FileNames |->
                  IF f = EVENTS
                  THEN WriteLines([k \in 1..n0 |-> to_string(Rec(2 * MaxConnLines + k, 1))])
                  ELSE <<>>]
  /\ present = {EVENTS}
  /\ spooled = TRUE
  /\ nextId = 0
  /\ feed = {}
  /\ collector = {"2xx"}
  /\ main_tx = TRUE
  /\ \E kinds \in SockLines :
       sock = [c \in Conns |-> IF c = "c1"
                               THEN [k \in 1..Len(kinds) |-> Line(LineId(c, k), kinds[k], 1)]
                               ELSE <<>>]
  /\ cpc = [c \in Conns |-> "off"]
  /\ held = [c \in Conns |-> NoLine]
  /\ chan = <<>>
  /\ entered = <<>>
  /\ pc = [a \in Actors |-> IF a = Egress THEN "e_start"
                            ELSE IF a = FlushProc THEN "idle" ELSE "off"]

NextQuarantine ==
  \/ \E c \in Conns : run_unix_accept(c)
  \/ \E c \in Conns : ConnStep(c)
  \/ http_loop_start
  \/ http_loop_recv
  \/ http_loop_clear
  \/ main_flush("done")
  \/ \E a \in Actors : LockStep(a)
  \/ \E a \in Actors : FlushStep(a)

SpecQuarantine == InitQuarantine /\ [][NextQuarantine]_vars

\* from_tap_frame alone, called once with any frame, the transcript its payload
\* names (if it names one) holding any latest assistant message or none.
InitNoAgent ==
  /\ InitLocal
  /\ NoIngest
  /\ collector = Responses
  /\ files = [f \in FileNames |-> <<>>]
  /\ present = {}
  /\ spooled = FALSE
  /\ nextId = 0
  /\ feed = {}
  /\ pc = [a \in Actors |-> "off"]

InitMapper ==
  /\ InitNoAgent
  /\ tap = NoTap
  /\ \E f \in Frames : \E m \in TranscriptsOf(f) :
       mapper = [pc |-> "start", frame |-> f, transcript |-> m,
                 payload |-> Absent, raw |-> Absent, out |-> Absent]

NextMapper ==
  \/ from_tap_frame_fast
  \/ from_tap_frame_payload
  \/ from_tap_frame_enrich
  \/ from_tap_frame_build

SpecMapper == InitMapper /\ [][NextMapper]_vars

\* One talon-tap invocation, with any hook input on stdin, with or without an
\* agent already listening on the socket.
InitTap ==
  /\ InitNoAgent
  /\ mapper = NoMapper
  /\ \E stdin \in StdinKinds, event \in Events, listening \in BOOLEAN :
       tap = [pc |-> "start", stdin |-> stdin, event |-> event, listening |-> listening,
              envelope |-> [event |-> event, payload |-> "{}"],
              sends |-> <<>>, spawns |-> <<>>, received |-> <<>>,
              sent |-> FALSE, status |-> 0]

NextTap ==
  \/ tap_envelope
  \/ tap_try_send
  \/ tap_start_agent
  \/ tap_sleep
  \/ tap_exit

SpecTap == InitTap /\ [][NextTap]_vars

\* jitter alone, called once with any base delay a u64 of milliseconds holds.
InitJitter ==
  /\ InitCommon
  /\ files = [f \in FileNames |-> <<>>]
  /\ present = {}
  /\ spooled = FALSE
  /\ nextId = 0
  /\ feed = {}
  /\ pc = [a \in Actors |-> "off"]

NextJitter == \E ms \in 0..U64_MAX : jitter(ms)

SpecJitter == InitJitter /\ [][NextJitter]_vars

\* The same, with the scheduling the liveness claims rest on: a thread or process
\* that can take a step of its operation takes one, and a call blocked in
\* lock_exclusive() returns once the lock is free.
Running == {"tB", FlushProc}
OperationStep(a) == AppendStep(a) \/ FlushStep(a) \/ Return(a)
FairSpecCross == /\ SpecCross
                 /\ \A a \in Running : WF_vars(OperationStep(a))
                 /\ \A a \in Running : WF_vars(lock_exclusive(a))


\* ==================================================================
\* Claims
\* ==================================================================

\* The steps that open, write, stat, rename, re-create, read or truncate
\* events.jsonl / events.tmp, and the sends flush_spool makes between its read
\* and its truncate.
SpoolPcs == {"a_open", "a_line", "a_nl", "a_sync", "a_stat",
             "r_rename", "r_read", "r_create", "r_write", "r_sync", "r_remove",
             "f_open", "f_read", "f_create", "f_sync"}
InSpool(a) == pc[a] \in SpoolPcs \/ (pc[a] = "s_try" /\ sret[a] \in {"f_loop", "f_tail"})

\* C1: at every moment at most one actor holds .spool.lock, and an actor that is
\* about to open, write, stat, rename, re-create or truncate events.jsonl /
\* events.tmp (rotate_spool_file's steps included) holds it.
C1_MutualExclusion ==
  /\ Cardinality(lock) <= 1
  /\ \A a \in Actors : InSpool(a) => a \in lock

\* C1 witness: one actor is inside rotate_spool_file, between its rename and its
\* re-create, while another one waits in SpoolLockGuard::acquire.
C1_Witness ==
  \E a, b \in Actors :
    /\ a # b
    /\ pc[a] = "r_create" /\ a \in lock
    /\ pc[b] \in {"a_acquire", "f_acquire"} /\ b \notin lock

\* C2: between the read of a flush_spool and its truncate no other actor changes
\* events.jsonl, and every parseable record the truncate removes was in a POST of
\* that same flush that returned success.
FlushWindow(a) == pc[a] \in {"f_read", "f_create"}
                  \/ (pc[a] = "s_try" /\ sret[a] \in {"f_loop", "f_tail"})
Truncates(a) == pc[a] = "f_create" /\ pc'[a] = "f_sync"
Succeeded(a, o) == pc[a] = "done" /\ op[a] = o /\ result[a] = "ok"
\* The lines the test's first append left in the spool: the records with ids
\* below the first id thread b appended.
InitialOf(b) == InitialSpool(events[b][1].id - 1)
LineSeq(evs) == [k \in 1..Len(evs) |-> to_string(evs[k])]
Written(evs) == WriteLines(LineSeq(evs))

\* C3 as stated: whenever thread A has rotated (under the lock) a spool that the
\* test had filled before, and thread B has appended (cap large, so B itself does
\* not rotate), every record B appended is in events.jsonl.
C3_NoLossForAnyInterleaving ==
  \A a, b \in Threads :
    (a # b /\ Succeeded(a, "rotate") /\ Succeeded(b, "append") /\ cap[b] = large_cap
       /\ InitialOf(b) # <<>>)
      => SeqIds(events[b]) \subseteq SeqIds(Parseable(Content(EVENTS)))

\* C3 amended: the outcome is that of one of the two serial orders.  If B
\* appended after A's rotation, events.jsonl is the kept half followed by all of
\* B's records; if B appended before it, the rotation kept the newest half of the
\* lines, B's among them only as far as they are in that half.
C3_RotationAndAppendSerialize ==
  \A a, b \in Threads :
    (a # b /\ Succeeded(a, "rotate") /\ Succeeded(b, "append") /\ cap[b] = large_cap)
      => \/ Content(EVENTS) = WriteLines(keep(BufLines(InitialOf(b)))) \o Written(events[b])
         \/ Content(EVENTS) = WriteLines(keep(BufLines(InitialOf(b) \o Written(events[b]))))

\* C3 witness: A rotated a spool of two lines, B appended afterwards, and the file
\* is the kept line followed by B's records.
C3_Witness ==
  \E a, b \in Threads :
    /\ a # b /\ Succeeded(a, "rotate") /\ Succeeded(b, "append") /\ cap[b] = large_cap
    /\ events[b][1].id = 3
    /\ Content(EVENTS) = WriteLines(keep(BufLines(InitialOf(b)))) \o Written(events[b])

\* C4: when both threads have appended with a cap that rules rotation out, the
\* file holds the initial lines and then each thread's records as one contiguous
\* run, in one of the two orders: every line is one complete record and the line
\* count is the sum of the counts.
C4_ConcurrentAppends ==
  (Succeeded("tA", "append") /\ Succeeded("tB", "append")
     /\ cap["tA"] = large_cap /\ cap["tB"] = large_cap)
  => LET first == IF events["tA"][1].id < events["tB"][1].id THEN "tA" ELSE "tB"
         init  == InitialOf(first)
         ls    == BufLines(Content(EVENTS))
     IN  /\ \/ Content(EVENTS) = init \o Written(events["tA"]) \o Written(events["tB"])
            \/ Content(EVENTS) = init \o Written(events["tB"]) \o Written(events["tA"])
         /\ Len(ls) = Len(BufLines(init)) + Len(events["tA"]) + Len(events["tB"])
         /\ \A k \in 1..Len(ls) : from_str_ok(ls[k])

\* C4 witness: both threads appended, one of them two records, into an empty
\* spool directory.
C4_Witness ==
  /\ Succeeded("tA", "append") /\ Succeeded("tB", "append")
  /\ cap["tA"] = large_cap /\ cap["tB"] = large_cap
  /\ Len(events["tA"]) + Len(events["tB"]) = 3
  /\ Len(BufLines(Content(EVENTS))) = 3

\* ------------------------------------------------------------------
\* test_cross_process_locking once the child process and the thread are over.
CrossFinal == /\ Succeeded(FlushProc, "flush") /\ Succeeded("tB", "append")
              /\ cap["tB"] = large_cap

Returning(a, o, res) == pc[a] = "ret" /\ op[a] = o /\ result[a] = res

\* C6: when flush_spool returns the error of a failed send_batch (in whichever
\* sub-batch), events.jsonl exists and holds exactly the bytes it held when the
\* flush took the lock: nothing was truncated.
C6_FailedFlushLeavesSpool ==
  \A a \in Actors :
    Returning(a, "flush", "send_err") =>
      /\ EVENTS \in present
      /\ files[EVENTS] = snap[a]
      /\ files[EVENTS] # <<>>

\* C6 witness: a flush whose first sub-batch was delivered fails in a later one.
C6_Witness ==
  \E a \in Actors : Returning(a, "flush", "send_err") /\ acked[a] # {}

\* C7: at the step where a flush_spool call returns Ok, events.jsonl has length
\* zero (the length metadata() reports; zero too when the file was never made).
C7_SuccessfulFlushEmpties ==
  [][\A a \in Actors :
       (pc[a] # "ret" /\ pc'[a] = "ret" /\ op[a] = "flush" /\ result'[a] = "ok")
         => (EVENTS \notin present' \/ files'[EVENTS] = <<>>)]_vars

\* C7 witness: a flush that delivered records has returned Ok.
C7_Witness ==
  \E a \in Actors :
    /\ Returning(a, "flush", "ok") /\ acked[a] # {}
    /\ EVENTS \in present /\ snap[a] # <<>>

C9_OnlyFlushEmptiesSpool ==
  \A a \in Actors :
    (pc[a] = "ret" /\ result[a] = "ok" /\ op[a] \in {"append", "rotate"}
       /\ (events[a] # <<>> \/ rot_pre[a] # <<>>))
      => Content(EVENTS) # <<>>

\* C10: after a rotation of a file with n lines has written the new file, it
\* holds between n/2 rounded down and n/2 rounded up lines, and they are the last
\* lines of the old file in their order.
RotationWritten(a) == pc[a] \in {"r_sync", "r_remove"}
                      \/ (pc[a] = "ret" /\ result[a] = "ok" /\ rotated[a])
C11_TmpOnlyInsideRotation ==
  lock = {} => /\ TMP \notin present
               /\ spooled => EVENTS \in present

\* ------------------------------------------------------------------
\* C12: the return of append_to_spool / flush_spool, with Ok or with an error,
\* leaves the caller without the lock; whoever holds the lock gives it up, and a
\* call waiting in SpoolLockGuard::acquire does not wait for ever.
Waiting(a) == pc[a] \in AcquirePcs /\ a \notin lock
C12_LockReleasedOnEveryExit ==
  /\ [][\A a \in Actors : (pc[a] = "ret" /\ pc'[a] # "ret") => a \notin lock']_vars
  /\ \A a \in Running : (a \in lock) ~> (a \notin lock)
  /\ \A a \in Running : Waiting(a) ~> ~Waiting(a)

\* C12 witness: an operation that failed inside a rotation is about to return
\* while another actor waits for the lock.
C12_Witness ==
  \E a, b \in Actors :
    /\ a # b
    /\ pc[a] = "ret" /\ result[a] = "io_err" /\ a \in lock /\ TMP \in present
    /\ Waiting(b)

\* ------------------------------------------------------------------
\* The send_batch call of actor a has just returned Ok / Err to its call site.
ReturnedOk(a)  == reqs[a] # <<>> /\ pc[a] \in {"e_clear", "f_read", "f_create"}
ReturnedErr(a) == reqs[a] # <<>>
                  /\ (pc[a] = "a_mkdir" \/ (pc[a] = "ret" /\ result[a] = "send_err"))
Retryables(r) == Cardinality({i \in 1..Len(r) : r[i] = "retryable"})
RECURSIVE Doubling(_, _)
Doubling(d, k) == IF k = 0 THEN <<>> ELSE <<d>> \o Doubling(2 * d, k - 1)

\* C13: a send_batch call makes at most 4 requests; every request before the
\* last one failed retryably; the call goes on only after a retryable failure
\* that was not the 4th request; it has slept once per retryable failure except
\* the 4th, for 200, 400, 800 ms (before jitter); it returns Ok exactly on a 2xx
\* and Err after the 4th retryable failure (or on a 4xx).
C13_RetrySchedule ==
  \A a \in Actors :
    LET r == reqs[a]
        n == Len(r)
        k == Retryables(r)
    IN  /\ n <= 4
        /\ \A i \in 1..(n - 1) : r[i] = "retryable"
        /\ slept[a] = Doubling(200, IF k < 3 THEN k ELSE 3)
        /\ (pc[a] = "s_try" /\ n > 0) => (n < 4 /\ r[n] = "retryable")
        /\ (n > 0 /\ r[n] = "2xx") => ReturnedOk(a)
        /\ ReturnedOk(a) => r[n] = "2xx"
        /\ ReturnedErr(a) => (r[n] = "4xx" \/ (n = 4 /\ r[n] = "retryable"))

\* C13 witness: a call has returned Err after four retryable failures and three
\* sleeps.
C13_Witness ==
  \E a \in Actors :
    /\ ReturnedErr(a)
    /\ reqs[a] = <<"retryable", "retryable", "retryable", "retryable">>
    /\ slept[a] = <<200, 400, 800>>

\* C14: a 4xx answer is the last request of its send_batch call: the call has
\* returned Err, and it has slept only after the retryable failures before the
\* 4xx (not at all when the 4xx answered the first request).
C14_ClientErrorIsTerminal ==
  \A a \in Actors :
    \A i \in 1..Len(reqs[a]) :
      reqs[a][i] = "4xx" =>
        /\ i = Len(reqs[a])
        /\ ReturnedErr(a)
        /\ Len(slept[a]) = i - 1
        /\ attempt[a] = 0 /\ delay[a] = 200

\* C14 witness: a 4xx that followed a 5xx or transport error of the same call,
\* and a call whose first answer was a 4xx.
C14_Witness ==
  /\ ReturnedErr(Egress) /\ reqs[Egress] = <<"retryable", "4xx">>
  /\ ReturnedErr(FlushProc) /\ reqs[FlushProc] = <<"4xx">> /\ slept[FlushProc] = <<>>

\* C15: when the triggered send_batch has returned after two retryable failures
\* and a 2xx, it made three requests with two sleeps (200, 400 ms), the loop
\* took the result as a success, and no record of the batch is in the spool;
\* from a successful send to the end of the iteration nothing is put into
\* events.jsonl: it stays as it was or is emptied by the drain.
Absorbed == pc[Egress] = "e_clear" /\ reqs[Egress] = <<"retryable", "retryable", "2xx">>
C15_TransientFailureAbsorbed ==
  /\ [](Absorbed =>
          /\ last_post = "ok"
          /\ slept[Egress] = <<200, 400>>
          /\ buf # <<>>
          /\ SeqIds(buf) \cap SeqIds(Parseable(Content(EVENTS))) = {}
          /\ Egress \notin lock)
  /\ [][last_post = "ok" =>
          (Content(EVENTS)' = Content(EVENTS) \/ Content(EVENTS)' = <<>>)]_vars

\* C15 witness: the batch went through at the third request and the spool,
\* empty before, is empty.
C15_Witness ==
  /\ Absorbed
  /\ ~spooled /\ Content(EVENTS) = <<>>

\* C16: every value jitter returns for a base delay of ms milliseconds lies
\* between ms / 2 and ms + ms / 2 (integer division), both ends included.
C16_JitterWithinHalf ==
  (jit.called /\ ~jit.panicked) =>
     /\ jit.out >= jit.ms \div 2
     /\ jit.out <= jit.ms + jit.ms \div 2

\* jitter(200 ms) returning the upper end, 300 ms.
C16_Witness == jit.called /\ ~jit.panicked /\ jit.ms = BASE_DELAY_MS /\ jit.out = 300

\* C17: at the end of every iteration of http_loop, after a received line and
\* after a receive timeout alike, send_batch is called exactly when the batch
\* holds batch_size records or more, or batch_bytes bytes or more, or the time
\* since `last` has reached batch_ms while the batch is not empty; an empty
\* batch is never sent for the time alone.
C17_FlushTriggers ==
  [][(pc[Egress] = "e_recv" /\ pc'[Egress] # "done") =>
       ((pc'[Egress] = "s_try" /\ sret'[Egress] = "e_loop")
          <=> \/ Len(buf') >= batch_size
              \/ buf_bytes' >= batch_bytes
              \/ (due' /\ buf' # <<>>))]_vars

\* The time trigger alone: a call of send_batch about to make its first request
\* with a batch below both size limits.
C17_Witness ==
  /\ pc[Egress] = "s_try" /\ sret[Egress] = "e_loop" /\ reqs[Egress] = <<>>
  /\ due /\ buf # <<>>
  /\ Len(buf) < batch_size /\ buf_bytes < batch_bytes

Cleared == buf = <<>> /\ buf_bytes = 0 /\ ~due

\* C18: after a trigger, whether the POST succeeded, failed and the batch was
\* spooled, or failed and the spool append failed too, the batch is empty, the
\* byte accumulator is 0 and the timer has been started again, and they stay so
\* until the loop receives again.
C18_BatchClearedAfterTrigger ==
  /\ [][(pc[Egress] = "e_clear" /\ pc'[Egress] # "e_clear") =>
          (last_post \in {"ok", "spooled", "unspooled"} /\ Cleared')]_vars
  /\ [][(last_post # "none" /\ pc[Egress] # "e_recv" /\ pc'[Egress] = "e_recv") => Cleared']_vars

\* The iteration whose POST failed and whose spool append failed, about to go
\* back to the receive.
C18_Witness ==
  /\ pc[Egress] = "ret" /\ cont[Egress] = "e_recv"
  /\ last_post = "unspooled"
  /\ Cleared

\* C19: http_loop calls flush_spool after a trigger when the POST succeeded, and
\* does not call it when the POST failed and the batch was spooled.
C19_DrainOnlyAfterSuccess ==
  /\ [][(pc[Egress] = "e_clear" /\ last_post = "ok" /\ pc'[Egress] # "e_clear")
          => pc'[Egress] = "f_exists"]_vars
  /\ [][(pc[Egress] = "e_clear" /\ last_post = "spooled") => pc'[Egress] # "f_exists"]_vars

\* The drain before the loop: the egress thread is inside the flush_spool that
\* http_loop calls ahead of its first recv_timeout.
StartupDrain ==
  /\ pc[Egress] \notin {"e_start", "e_recv", "e_clear", "done"}
  /\ cont[Egress] = "e_recv"
  /\ sret[Egress] # "e_loop"
  /\ last_post = "none"

\* C20: http_loop calls flush_spool exactly once before its first receive, and
\* the loop starts whether that call returns Ok or an error.
C20_StartupDrain ==
  /\ [](pc[Egress] = "e_start" \/ StartupDrain => buf = <<>> /\ buf_bytes = 0 /\ ~due)
  /\ [][pc[Egress] = "e_start" => (pc'[Egress] = "e_start" \/ (StartupDrain' /\ pc'[Egress] = "f_exists"))]_vars
  /\ [][(StartupDrain' /\ ~StartupDrain) => pc[Egress] = "e_start"]_vars
  /\ [][pc'[Egress] = "e_start" => pc[Egress] = "e_start"]_vars
  /\ [][(StartupDrain /\ pc[Egress] = "ret" /\ pc'[Egress] # "ret") => pc'[Egress] = "e_recv"]_vars

\* The startup drain has failed and is about to return its error to http_loop.
C20_Witness ==
  /\ StartupDrain
  /\ pc[Egress] = "ret"
  /\ result[Egress] \in {"send_err", "io_err"}

\* The append_to_spool that http_loop calls for a batch whose POST failed is
\* about to return.
SpoolReturn ==
  /\ pc[Egress] = "ret" /\ op[Egress] = "append" /\ cont[Egress] = "e_clear"
  /\ last_post = "err"

\* events.jsonl is what the call found under the lock followed by the lines of
\* the batch in batch order, less what a rotation at the end of the call removed.
AppendedAtEnd(a) ==
  LET full == snap[a] \o Written(events[a])
  IN  IF rotated[a]
      THEN Content(EVENTS) = WriteLines(keep(BufLines(full)))
      ELSE Content(EVENTS) = full

Increasing(rs) == \A i, j \in 1..Len(rs) : i < j => rs[i].id < rs[j].id

CeilDiv(n, d) == (n + d - 1) \div d
Min(x, y) == IF x <= y THEN x ELSE y

\* The k-th sub-batch of the records rs: records (k-1)*500+1 .. k*500 of the file.
SubBatch(rs, k) == SubSeq(rs, (k - 1) * FLUSH_CHUNK + 1, Min(k * FLUSH_CHUNK, Len(rs)))

\* Every request of the flush_spool that actor a is returning from was answered 2xx.
AlwaysAnswered2xx(a) == \A i \in 1..Len(posts[a]) : posts[a][i].tries = 1

FlushPcs == {"f_exists", "f_acquire", "f_open", "f_read", "f_create", "f_sync"}
InFlush(a) == pc[a] \in FlushPcs \/ (pc[a] = "s_try" /\ sret[a] \in {"f_loop", "f_tail"})
\* The lines of the spool a flush reads that are not valid JSON.
BadLines(bytes) == {i \in 1..Len(BufLines(bytes)) : ~from_str_ok(BufLines(bytes)[i])}

\* C23: a line of events.jsonl that is not valid JSON is in no POST of
\* flush_spool (every body holds parsed records only, and no more of them than
\* the file has parseable lines); reading it never makes flush_spool return, with
\* an error or otherwise; no step of flush_spool writes to quarantine; and when
\* flush_spool returns Ok under the lock the whole file, that line included, is gone.
C23_FlushDropsUnparseableLines ==
  /\ [](\A a \in Actors : InFlush(a) =>
          /\ \A k \in 1..Len(batch[a]) : batch[a][k].ok
          /\ SeqIds(batch[a]) \cup acked[a] \subseteq SeqIds(Parseable(snap[a])))
  /\ [][\A a \in Actors : pc[a] = "f_read" => pc'[a] \in {"f_read", "s_try", "f_create"}]_vars
  /\ [][(\E a \in Actors : InFlush(a) /\ pc'[a] # pc[a]) => quarantine' = quarantine]_vars
  /\ [](\A a \in Actors : (Returning(a, "flush", "ok") /\ a \in lock) => files[EVENTS] = <<>>)

\* A flush has succeeded on a spool whose second line of four was not JSON: its
\* two requests carried the three records, and the file is empty.
C23_Witness ==
  /\ Returning(FlushProc, "flush", "ok")
  /\ BadLines(snap[FlushProc]) = {2}
  /\ Len(BufLines(snap[FlushProc])) = 4
  /\ Len(posts[FlushProc]) = 2
  /\ posts[FlushProc][1].ids = <<1, 3>>
  /\ files[EVENTS] = <<>>

ReceivesBadLine ==
  /\ pc[Egress] = "e_recv"
  /\ chan # <<>> /\ chan' = Tail(chan)
  /\ Head(chan).kind \in {"parse error", "mapping error"}
QuarantineEntry(line) == [reason |-> line.kind, raw |-> line.id]
BatchUntouched == buf' = buf /\ buf_bytes' = buf_bytes
LoopGoesOn == pc'[Egress] \in {"e_recv", "s_try"}

\* C25 as stated: every received line that fails parsing or mapping is appended
\* to quarantine.jsonl as one {reason, raw} object, the batch is unchanged and
\* the loop goes on.
C25_BadLineAlwaysQuarantined ==
  [][ReceivesBadLine =>
       /\ quarantine' = Append(quarantine, QuarantineEntry(Head(chan)))
       /\ BatchUntouched /\ LoopGoesOn]_vars

\* C25: a received line that fails parsing or mapping is handed to
\* append_to_quarantine, which appends one {reason, raw} object with the line as
\* raw, or, when its write fails, nothing; either way the batch and the byte
\* accumulator are unchanged and the loop goes on; nothing else is ever written
\* to quarantine.jsonl.
C25_BadLineQuarantinedOrDropped ==
  /\ [][ReceivesBadLine =>
         /\ quarantine' \in {quarantine, Append(quarantine, QuarantineEntry(Head(chan)))}
         /\ BatchUntouched /\ LoopGoesOn]_vars
  /\ [][quarantine' # quarantine => ReceivesBadLine]_vars

\* A parse error and a mapping error are both in quarantine.jsonl and the loop
\* is back at its receive.
C25_Witness ==
  /\ pc[Egress] = "e_recv"
  /\ \E i, j \in 1..Len(quarantine) :
       quarantine[i].reason = "parse error" /\ quarantine[j].reason = "mapping error"

EgressLeaves(p) == pc[Egress] = p /\ pc'[Egress] # p

\* C26: when the POST of a triggered batch has failed and append_to_spool fails
\* too, http_loop takes the error, clears the batch and goes on to the drain and
\* the next receive; and whatever send_batch, append_to_spool or flush_spool
\* return, the thread stays in the loop.
C26_LocalFailureDropsBatch ==
  /\ [][(SpoolReturn /\ result[Egress] = "io_err" /\ EgressLeaves("ret")) =>
          (pc'[Egress] = "e_clear" /\ last_post' = "unspooled" /\ buf' = buf)]_vars
  /\ [][(last_post = "unspooled" /\ EgressLeaves("e_clear")) =>
          (buf' = <<>> /\ buf_bytes' = 0 /\ pc'[Egress] = "f_exists")]_vars
  /\ [](last_post = "unspooled" => pc[Egress] # "done")
  /\ [][(pc[Egress] = "s_try" /\ sret[Egress] = "e_loop" /\ EgressLeaves("s_try")) =>
          pc'[Egress] \in {"a_mkdir", "e_clear"}]_vars
  /\ [][(result[Egress] \in {"io_err", "send_err"} /\ EgressLeaves("ret")) =>
          pc'[Egress] \in {"e_clear", "e_recv"}]_vars

\* A batch of two records whose POST failed and whose append_to_spool failed
\* after writing a part of it: the loop is about to clear the batch.
C26_Witness ==
  /\ pc[Egress] = "e_clear"
  /\ last_post = "unspooled"
  /\ Len(buf) = 2
  /\ buf[1].id \in SeqIds(Content(EVENTS))
  /\ buf[2].id \notin SeqIds(Content(EVENTS))

\* Lines of one connection are in the order that connection wrote them.
PerConnFIFO(ids) ==
  \A i, j \in 1..Len(ids) : (i < j /\ ConnOf(ids[i]) = ConnOf(ids[j])) => ids[i] < ids[j]
\* The place of a line in the order of entering the channel.
Pos(i) == CHOOSE p \in 1..Len(entered) : entered[p] = i
LastOf(s, n) == SubSeq(s, Len(s) - n + 1, Len(s))

\* C27: with two connections writing concurrently, the lines of each connection
\* enter the channel in the order it wrote them, the channel holds the lines last
\* entered in their order of entry, and the batch (which is the body of the POST
\* when send_batch is called) holds records in their order of entry, all of them
\* entered before those still in the channel.
C27_PerConnectionFIFO ==
  /\ PerConnFIFO(entered)
  /\ IdsOf(chan) = LastOf(entered, Len(chan))
  /\ \A k \in 1..Len(buf) : \E p \in 1..(Len(entered) - Len(chan)) : entered[p] = buf[k].id
  /\ \A i, j \in 1..Len(buf) : i < j => Pos(buf[i].id) < Pos(buf[j].id)
  /\ PerConnFIFO(IdsOf(buf))
  /\ (pc[Egress] = "s_try" /\ sret[Egress] = "e_loop") => PerConnFIFO(IdsOf(SendArg(Egress)))

\* The two connections interleaved (1, 3, 2, 4 with lines 1, 2 of the first and
\* 3, 4 of the second), and the second POST is about to carry lines 2 and 4.
C27_Witness ==
  /\ entered = <<LineId("c1", 1), LineId("c2", 1), LineId("c1", 2), LineId("c2", 2)>>
  /\ pc[Egress] = "s_try" /\ sret[Egress] = "e_loop"
  /\ IdsOf(SendArg(Egress)) = <<LineId("c1", 2), LineId("c2", 2)>>

InSeq(x, s) == \E p \in 1..Len(s) : s[p] = x
NoDuplicates(s) == \A p, q \in 1..Len(s) : p # q => s[p] # s[q]
Blocked(c) == cpc[c] = "send" /\ ~has_room /\ pc[Egress] # "done"
LineIds == 1..(2 * MaxConnLines)

\* C28: the channel never holds more than chan_capacity lines; a connection
\* thread whose send finds it full keeps its line and reads nothing more from its
\* socket until the send is done; a thread in send gets out of it; and every
\* non-blank line a thread has read enters the channel, and no line enters twice.
C28_BackpressureWithoutLoss ==
  /\ [](Len(chan) <= chan_capacity)
  /\ [][\A c \in Conns : Blocked(c) =>
          (cpc'[c] = "send" /\ held'[c] = held[c] /\ sock'[c] = sock[c])]_vars
  /\ [](NoDuplicates(entered))
  /\ [](\A c \in Conns : cpc[c] = "send" =>
          (held[c].kind # "blank" /\ ~InSeq(held[c].id, entered)))
  /\ \A c \in Conns : (cpc[c] = "send") ~> (cpc[c] # "send")
  /\ \A c \in Conns : \A i \in LineIds :
       (cpc[c] = "send" /\ held[c].id = i) ~> InSeq(i, entered)

\* The channel is full and both connection threads are blocked in send.
C28_Witness ==
  /\ Len(chan) = chan_capacity
  /\ \A c \in Conns : Blocked(c)

BadLineWaiting ==
  /\ pc[Egress] = "e_recv"
  /\ chan # <<>>
  /\ Head(chan).kind \in {"parse error", "mapping error"}
QuarantineWrite ==
  /\ http_loop_recv
  /\ quarantine' = Append(quarantine, QuarantineEntry(Head(chan)))

\* C29: the handling of a line that fails parsing or mapping neither takes nor
\* needs .spool.lock: the step leaves the lock as it is, and whoever holds the
\* lock, the quarantine write can be made as soon as the line is received. A
\* quarantine write that fails leaves quarantine.jsonl as it was and the loop
\* goes on.
C29_QuarantineIgnoresSpoolLock ==
  /\ [][ReceivesBadLine => (lock' = lock /\ Egress \notin lock')]_vars
  /\ [](BadLineWaiting => ENABLED QuarantineWrite)
  /\ [][(ReceivesBadLine /\ quarantine' = quarantine) => LoopGoesOn]_vars

\* quarantine.jsonl got a line while the operator's flush held .spool.lock.
C29_Witness ==
  /\ quarantine # <<>>
  /\ qlock = {FlushProc}

Emitted == mapper.pc = "done" /\ mapper.out.ok
TapRaw == get(mapper.out.extensions, "tap.raw")

\* C30: every record from_tap_frame returns carries the original payload under
\* extensions["tap.raw"]: on the legacy path the frame's payload as received
\* (an empty object when the frame has none), whatever enrichment added to the
\* working copy; on the fast path the frame's payload or the frame itself.
C30_TapRawPreserved ==
  Emitted =>
    /\ TapRaw # Absent
    /\ IF mapper.out.path = "legacy"
       THEN TapRaw = (IF mapper.frame.payload = Absent THEN EmptyObject
                      ELSE mapper.frame.payload)
       ELSE TapRaw \in {mapper.frame.payload, mapper.frame}

\* C31: every record from_tap_frame returns has the same token counts in
\* outputs as in metrics: outputs.input_tokens = metrics.prompt_tokens,
\* outputs.output_tokens = metrics.completion_tokens, the two total_tokens
\* equal, and outputs.tokens_estimated = metrics.token_counts_estimated.
C31_TokenCountsDuplicated ==
  Emitted => mapper.out.outputs = outputs_of(mapper.out.metrics)

EmittedLegacy == Emitted /\ mapper.out.path = "legacy"
AboveU32(v) == v.t = "num" /\ v.n > U32_MAX
Saturated(v, field) == AboveU32(v) => field = U32_MAX

\* C32: every u32 field a legacy record takes from an integer above the u32
\* range (the pid, top_k, max_tokens, the three token counts, the three
\* latencies) holds exactly the largest u32.
C32_U32CoercionsSaturate ==
  EmittedLegacy =>
    LET out == mapper.out
        u == get(mapper.payload, "usage")
        l == get(mapper.payload, "latency_ms")
    IN /\ Saturated(mapper.frame.pid, out.pid)
       /\ Saturated(get(mapper.payload, "top_k"), out.top_k)
       /\ Saturated(get(mapper.payload, "max_tokens"), out.max_tokens)
       /\ Saturated(get(u, "prompt_tokens"), out.metrics.prompt_tokens)
       /\ Saturated(get(u, "completion_tokens"), out.metrics.completion_tokens)
       /\ Saturated(get(u, "total_tokens"), out.metrics.total_tokens)
       /\ Saturated(get(l, "first_token"), out.latency_ms.first_token)
       /\ Saturated(get(l, "provider"), out.latency_ms.provider)
       /\ Saturated(get(l, "total"), out.latency_ms.total)

FastPathFrame == mapper.frame.schema_version /\ mapper.frame.ids # "absent"

\* C33: from_tap_frame never panics; it returns an error only for a frame with
\* both schema_version and ids; for every other frame it returns a record.
C33_MapperTotal ==
  mapper.pc # "off" =>
    /\ mapper.pc # "panicked"
    /\ (mapper.pc = "done" /\ ~mapper.out.ok) => FastPathFrame
    /\ (mapper.pc = "done" /\ ~FastPathFrame) => mapper.out.ok

\* The transcript was read and its latest assistant message applied.
Enriched ==
  /\ as_str(get(mapper.raw, "transcript_path")) # Absent
  /\ mapper.transcript # Absent
FrameTsSet == mapper.frame.ts.t = "str" /\ mapper.frame.ts.v # ""
PayloadTimestamp == get(mapper.raw, "timestamp")

\* C34: a legacy record's timestamp is the frame's ts when that is a non-empty
\* string; otherwise the timestamp the payload came with, when it is a string;
\* otherwise, when the payload came without one and enrichment found one in
\* the transcript, the transcript's; otherwise empty. The transcript's never
\* replaces one the frame or the payload carried.
C34_TimestampCascade ==
  EmittedLegacy =>
    mapper.out.timestamp =
      IF FrameTsSet THEN mapper.frame.ts.v
      ELSE IF PayloadTimestamp # Absent THEN str_or_empty(PayloadTimestamp)
      ELSE IF Enriched /\ mapper.transcript.timestamp THEN TranscriptValue.v
      ELSE ""

\* The payload came with a timestamp, the frame without, and the transcript's
\* latest message has one too: the record has the payload's.
C34_Witness ==
  /\ EmittedLegacy
  /\ ~FrameTsSet
  /\ PayloadTimestamp = FrameValue
  /\ Enriched /\ mapper.transcript.timestamp
  /\ mapper.out.timestamp = FrameValue.v

Counter(k) == u64_or_0(get(mapper.transcript.usage, k))
PromptSum ==
  Counter("input_tokens") + Counter("cache_creation_input_tokens")
    + Counter("cache_read_input_tokens")
SatU32(n) == IF n > U32_MAX THEN U32_MAX ELSE n
ModU64(n) == n % 2^U64_BITS

\* C35 as stated: a legacy record enriched from a transcript has
\* metrics.prompt_tokens = input_tokens + cache_creation_input_tokens +
\* cache_read_input_tokens, completion_tokens = output_tokens, total_tokens =
\* prompt_tokens + completion_tokens and token_counts_estimated = false.
C35_UsageAggregated ==
  (EmittedLegacy /\ Enriched) =>
    /\ mapper.out.metrics.prompt_tokens = PromptSum
    /\ mapper.out.metrics.completion_tokens = Counter("output_tokens")
    /\ mapper.out.metrics.total_tokens =
         mapper.out.metrics.prompt_tokens + mapper.out.metrics.completion_tokens
    /\ ~mapper.out.metrics.token_counts_estimated

\* C35: a legacy record enriched from a transcript has, whatever usage the
\* payload came with, the three aggregates of the transcript's counters, each
\* sum taken in u64 (modulo 2^64 when it is returned at all) and then cut to
\* the largest u32, and token_counts_estimated = false.
C35_UsageAggregatedSaturating ==
  (EmittedLegacy /\ Enriched) =>
    /\ mapper.out.metrics.prompt_tokens = SatU32(ModU64(PromptSum))
    /\ mapper.out.metrics.completion_tokens = SatU32(Counter("output_tokens"))
    /\ mapper.out.metrics.total_tokens =
         SatU32(ModU64(PromptSum + Counter("output_tokens")))
    /\ ~mapper.out.metrics.token_counts_estimated

\* The payload came with its own usage (1, 2, 3, estimated) and the record has
\* the transcript's aggregates 1 + 2 + 4, 8 and their sum.
C35_Witness ==
  /\ EmittedLegacy /\ Enriched
  /\ get(mapper.raw, "usage") = FrameUsage
  /\ mapper.out.metrics = [prompt_tokens |-> 7, completion_tokens |-> 8,
                           total_tokens |-> 15, token_counts_estimated |-> FALSE]

TapDone == tap.pc = "done"
FirstSendOk == tap.sends # <<>> /\ tap.sends[1] = "ok"
TapBounds ==
  /\ Len(tap.sends) <= 2 /\ Len(tap.spawns) <= 1
  /\ FirstSendOk => (tap.spawns = <<>> /\ Len(tap.sends) = 1)
  /\ (tap.status # 0) <=> ~tap.sent
  /\ tap.sent <=> (tap.sends[Len(tap.sends)] = "ok")
  /\ Len(tap.received) = (IF tap.sent THEN 1 ELSE 0)

\* C36 as stated: a finished talon-tap made one send and no spawn when the first
\* send succeeded; when it failed, at most one spawn and exactly one more send;
\* never more than two sends or one spawn; non-zero exit iff the event was not sent.
C36_TapRetriesExactlyOnce ==
  TapDone =>
    /\ TapBounds
    /\ ~FirstSendOk => (Len(tap.spawns) <= 1 /\ Len(tap.sends) = 2)

\* C36: as above, except that after a failed first send the second send is
\* made exactly when the spawn succeeded; a failed spawn ends the run with one
\* send and a non-zero exit.
C36_TapRetriesOnceAfterSpawn ==
  TapDone =>
    /\ TapBounds
    /\ ~FirstSendOk =>
         /\ Len(tap.spawns) = 1
         /\ Len(tap.sends) = (IF tap.spawns[1] THEN 2 ELSE 1)
         /\ ~tap.spawns[1] => tap.status = 1

\* The first send found no agent, the agent was spawned, the second send
\* delivered the event and the exit status is 0.
C36_Witness ==
  /\ TapDone
  /\ tap.sends = <<"connect error", "ok">>
  /\ tap.spawns = <<TRUE>>
  /\ tap.received = <<tap.envelope>>
  /\ tap.status = 0

\* Ids of the records that are in a file of the spool directory or in quarantine.jsonl
OnDisk == UNION {SeqIds(files[f]) : f \in FileNames} \cup {quarantine[k].raw : k \in 1..Len(quarantine)}

\* C37: the step by which the egress loop ends makes no request and writes no
\* file, whatever the batch holds; and once it has ended, the records of the
\* batch are in no 2xx-answered request, in no file of the spool directory and
\* not in the quarantine, whatever a flush process does afterwards.
C37_NoDrainOnShutdown ==
  /\ [][(pc[Egress] # "done" /\ pc'[Egress] = "done") =>
          UNCHANGED <<buf, fsv, quarantine, collected, reqs, posts>>]_vars
  /\ [](pc[Egress] = "done" => SeqIds(buf) \cap (collected \cup OnDisk) = {})
  /\ [][pc[Egress] = "done" => UNCHANGED buf]_vars

\* The loop has ended with a record in its batch, after it had delivered a
\* batch and while records remain in the spool.
C37_Witness ==
  /\ pc[Egress] = "done"
  /\ buf # <<>>
  /\ collected # {}
  /\ Content(EVENTS) # <<>>

\* The ids of sub-batches 1..n of the records rs
RECURSIVE SubBatchIds(_, _)
SubBatchIds(rs, n) ==
  IF n = 0 THEN {} ELSE SubBatchIds(rs, n - 1) \cup {SubBatch(rs, n)[i] : i \in 1..Len(SubBatch(rs, n))}

OwnRequest == /\ pc[Egress] = "s_try" /\ sret[Egress] = "e_loop"
              /\ Len(reqs'[Egress]) > Len(reqs[Egress])

\* C39: the batch never holds more than batch_size records, and fewer while the
\* loop waits to receive; every request of the egress loop's own send_batch
\* carries between 1 and batch_size records; no actor's send_batch makes a
\* request for an empty batch; and the loop's send_batch called with an empty
\* batch returns Ok at once without a request.
C39_SizeOfEgressPosts ==
  /\ [](Len(buf) <= config.batch_size)
  /\ [](pc[Egress] = "e_recv" => Len(buf) < config.batch_size)
  /\ [][OwnRequest => (Len(buf) >= 1 /\ Len(buf) <= config.batch_size)]_vars
  /\ [][\A a \in Actors : Len(reqs'[a]) > Len(reqs[a]) => SendArg(a) # <<>>]_vars
  /\ [][(pc[Egress] = "s_try" /\ sret[Egress] = "e_loop" /\ buf = <<>>) =>
          (pc'[Egress] = "e_clear" /\ last_post' = "ok" /\ reqs' = reqs /\ collected' = collected)]_vars

\* With --batch-bytes 0 the byte trigger fires on an empty batch: send_batch has
\* returned Ok for it without a request, after an earlier POST of one record.
C39_Witness ==
  /\ pc[Egress] = "e_clear" /\ last_post = "ok"
  /\ buf = <<>> /\ reqs[Egress] = <<>>
  /\ config.batch_bytes = 0
  /\ collected # {}

\* Record i waits in the batch: the loop is about to receive again.
Batched(i) == pc[Egress] = "e_recv" /\ i \in SeqIds(buf)
\* Record i is the argument of the send_batch call the egress loop makes.
Handed(i) == pc[Egress] = "s_try" /\ sret[Egress] = "e_loop" /\ i \in SeqIds(buf)
\* A step of the egress thread that ends an iteration without receiving a line.
TimedOut == /\ pc[Egress] = "e_recv" /\ UNCHANGED <<chan, buf>>
            /\ (due' # due \/ pc'[Egress] # pc[Egress])

\* C40: while the channel stays connected, a record in the batch is in time the
\* argument of a send_batch call, also when no line follows it; a receive
\* timeout finds batch_ms elapsed; and the iteration that finds batch_ms
\* elapsed with a non-empty batch calls send_batch with all of it.
C40_BatchedRecordIsSent ==
  /\ \A i \in LineIds : Batched(i) ~> Handed(i)
  /\ [][TimedOut => due']_vars
  /\ [][(pc[Egress] = "e_recv" /\ due' /\ buf' # <<>>) =>
          (pc'[Egress] = "s_try" /\ sret'[Egress] = "e_loop")]_vars
  /\ [](pc[Egress] # "done")

\* The last record any producer wrote is sent by the time trigger alone: it is
\* below both size limits and no line is left in a socket or in the channel.
C40_Witness ==
  /\ pc[Egress] = "s_try" /\ sret[Egress] = "e_loop"
  /\ due /\ Len(buf) = 1 /\ buf_bytes < config.batch_bytes
  /\ chan = <<>>
  /\ \A c \in Conns : sock[c] = <<>> /\ cpc[c] # "send"
  /\ Len(entered) >= 2

====
